---- MODULE Spec2Model ----
(***************************************************************************)
(* Ledger engine of kheAI: chart of accounts, journal-entry validation and *)
(* posting (src/services/ledger.js), the reversal helper and the journal   *)
(* conversation flows of the Telegram bot (src/bot/bot.js) and the         *)
(* liability service (src/services/liabilities.js).                        *)
(*                                                                         *)
(* Amounts are integers in units of 0.01 currency unit, so the validator's *)
(* tolerance 0.01 is the integer 1.  A date is the local calendar          *)
(* [year, month] that Date.getFullYear()/getMonth() read.  Account codes   *)
(* are the decimal strings of the integers used here; startsWith('1') is   *)
(* the leading decimal digit.  Line payloads are typed as the prompt of    *)
(* parseJournalEntry prescribes: account_code a digit string, debit and    *)
(* credit numbers.                                                         *)
(***************************************************************************)
EXTENDS Integers, Sequences, FiniteSets, TLC

VARIABLES
    ledger,          \* redis hashes ledger:<user>:<code>:<year>:<month>
    journal,         \* redis JSON documents journal:<id>
    userJournals,    \* redis lists user:<id>:journals
    journal_entries, \* redis stream journal_entries
    nextId,          \* number of uuids drawn so far
    liability,       \* redis JSON documents liability:<id>
    userLiabilities, \* redis lists user:<id>:liabilities
    userState,       \* redis keys user_state:<id> (conversation state, 1 hour)
    edits,           \* number of journal replacements made so far
    steps,           \* number of messages handled so far
    now,             \* the server clock, as a local calendar month
    ret,             \* what the last handler answered and which entries it applied
    call,            \* one direct use of the ledger service: its arguments and progress
    procs,           \* concurrent requests: the redis commands each has left to issue
    observed,        \* the last bucket a statement generator read
    report,          \* the last statement a generator returned, with its arguments
    transaction,     \* redis JSON documents transaction:<id>
    userTransactions,\* redis lists user:<id>:transactions
    metrics,         \* redis hashes metrics:<user>:<month>
    ai_cache,        \* redis strings ai_cache:<md5>
    recurring,       \* redis JSON documents recurring:<id>
    active_recurring,\* redis set active_recurring
    events,          \* redis streams other than journal_entries, in order of arrival
    cache_hits,      \* redis counters cache_hits:<user>
    ai_context,      \* redis lists ai_context:<user>
    expires,         \* the time at which redis removes a ledger key that has a TTL
    asset,           \* redis JSON documents asset:<id>
    userAssets       \* redis lists user:<id>:assets

vars == <<ledger, journal, userJournals, journal_entries, nextId,
          liability, userLiabilities, userState, edits, steps, now, ret, call,
          procs, observed, report, transaction, userTransactions, metrics, ai_cache,
          recurring, active_recurring, events, cache_hits, ai_context, expires,
                   asset, userAssets>>

\* the keys of RedisService: transactions, business metrics and the AI cache
otherVars == <<transaction, userTransactions, metrics, ai_cache,
               recurring, active_recurring, events, cache_hits, ai_context, expires,
                   asset, userAssets>>

(***************************************************************************)
(* Bounds                                                                  *)
(***************************************************************************)
MaxLines == 2
MaxAmount == 1
MaxJournals == 2
MaxMonths == 2
MaxEdits == 1
MaxSteps == 6
MaxProcs == 2
MaxFailures == 1
MaxQueries == 3

Null == "null"
NoDate == [year |-> 0, month |-> 0]    \* entryData.date undefined
NoJournal == [id |-> 0]                \* redis.json.get of a missing key: null
Users == {"u1", "u2"}
JournalIds == 1..(MaxJournals + 1)

(***************************************************************************)
(* Chart of accounts                                                       *)
(***************************************************************************)
AssetCodes == {1000, 1100, 1200, 1300, 1400, 1500, 1600, 1700, 1800}
LiabilityCodes == {2000, 2100, 2200, 2300, 2400, 2500}
EquityCodes == {3000, 3100, 3200}
RevenueCodes == {4000, 4100, 4200, 4300, 4400}
ExpenseCodes == {5000, 5100, 5200, 5300, 5400, 5500, 5600, 5700, 5800}
ChartCodes == AssetCodes \cup LiabilityCodes \cup EquityCodes \cup RevenueCodes \cup ExpenseCodes

accountCategory(code) ==
    CASE code \in {1000, 1100, 1200, 1300, 1400, 2000, 2100, 2200, 2300, 2400, 3200} -> "current"
      [] code \in {1500, 1600, 1700} -> "fixed"
      [] code \in {1800, 4400, 5800} -> "investment"
      [] code = 2500 -> "long_term"
      [] code = 3000 -> "capital"
      [] code = 3100 -> "retained"
      [] code \in {4000, 4100, 4200, 5100, 5200, 5300, 5400, 5500, 5600} -> "operating"
      [] code \in {4300, 5700} -> "non_operating"
      [] code = 5000 -> "cogs"

accountTypeOf(code) ==
    CASE code \in AssetCodes -> "asset"
      [] code \in LiabilityCodes -> "liability"
      [] code \in EquityCodes -> "equity"
      [] code \in RevenueCodes -> "revenue"
      [] code \in ExpenseCodes -> "expense"

chartOfAccounts ==
    [code \in ChartCodes |->
        [type |-> accountTypeOf(code),
         category |-> accountCategory(code),
         isContra |-> (code = 1600)]]

\* accountInfo?.type : undefined for a code that is not a key of the chart
accountInfoType(code) ==
    IF code \in DOMAIN chartOfAccounts THEN chartOfAccounts[code].type ELSE "undefined"

(***************************************************************************)
(* Values                                                                  *)
(***************************************************************************)
Abs(x) == IF x < 0 THEN -x ELSE x

RECURSIVE FirstDigit(_)
FirstDigit(n) == IF n < 10 THEN n ELSE FirstDigit(n \div 10)

\* String.prototype.startsWith on the decimal string of the code
startsWith(code, digit) == FirstDigit(code) = digit

\* Date.getFullYear() and the zero-based Date.getMonth()
getFullYear(date) == date.year
getMonth(date) == date.month - 1

NextMonth(date) ==
    IF date.month = 12 THEN [year |-> date.year + 1, month |-> 1]
    ELSE [year |-> date.year, month |-> date.month + 1]

RECURSIVE MonthsFrom(_, _)
MonthsFrom(date, n) == IF n = 0 THEN {} ELSE {date} \cup MonthsFrom(NextMonth(date), n - 1)

FirstMonth == [year |-> 2024, month |-> 12]
Dates == MonthsFrom(FirstMonth, MaxMonths)

EmptyBucket == [total_debits |-> 0, total_credits |-> 0, balance |-> 0, fields |-> {}]

\* the key with the zero-based month of getMonth()
ledgerKey_ZeroBasedMonth(userId, account_code, date) ==
    <<userId, account_code, getFullYear(date), getMonth(date)>>

\* `ledger:${userId}:${entry.account_code}:${year}:${month}`
ledgerKey(userId, account_code, date) ==
    <<userId, account_code, getFullYear(date), getMonth(date) + 1>>

\* redis HGETALL: a key that was never written reads as the empty hash
hGetAll(L, key) == IF key \in DOMAIN L THEN L[key] ELSE EmptyBucket

(***************************************************************************)
(* Redis commands.  S is the store: [ledger, journal, userJournals,        *)
(* journal_entries].  Every command is executed atomically by the server.  *)
(***************************************************************************)
Cmd(op, key, field, delta, value) ==
    [op |-> op, key |-> key, field |-> field, delta |-> delta, value |-> value]

NoKey == <<>>

\* a write of the delta in place of an increment
hIncrByFloat_Overwrite(L, key, field, delta) ==
    LET old == hGetAll(L, key)
        new == [old EXCEPT ![field] = delta, !.fields = @ \cup {field}]
    IN [k \in DOMAIN L \cup {key} |-> IF k = key THEN new ELSE L[k]]

\* redis HINCRBYFLOAT key field delta
hIncrByFloat(L, key, field, delta) ==
    LET old == hGetAll(L, key)
        new == [old EXCEPT ![field] = @ + delta, !.fields = @ \cup {field}]
    IN [k \in DOMAIN L \cup {key} |-> IF k = key THEN new ELSE L[k]]

\* redis HSET key field value  (last_updated carries no number)
hSet(L, key, field) ==
    LET old == hGetAll(L, key)
        new == [old EXCEPT !.fields = @ \cup {field}]
    IN [k \in DOMAIN L \cup {key} |-> IF k = key THEN new ELSE L[k]]

RECURSIVE lRemFirst(_, _)
\* redis LREM key 1 value
lRemFirst(list, v) ==
    IF list = <<>> THEN <<>>
    ELSE IF Head(list) = v THEN Tail(list)
    ELSE <<Head(list)>> \o lRemFirst(Tail(list), v)

Exec(S, c) ==
    CASE c.op = "hIncrByFloat" ->
            [S EXCEPT !.ledger = hIncrByFloat(@, c.key, c.field, c.delta)]
      [] c.op = "hSet" ->
            [S EXCEPT !.ledger = hSet(@, c.key, c.field)]
      [] c.op = "expire" -> S
      [] c.op = "hGetAll" -> S
      [] c.op = "json.set" ->
            [S EXCEPT !.journal[c.key] = c.value]
      [] c.op = "del" ->
            [S EXCEPT !.journal[c.key] = NoJournal]
      [] c.op = "lPush" ->
            [S EXCEPT !.userJournals[c.key] = <<c.value>> \o @]
      [] c.op = "lRem" ->
            [S EXCEPT !.userJournals[c.key] = lRemFirst(@, c.value)]
      [] c.op = "xAdd" ->
            [S EXCEPT !.journal_entries = Append(@, c.value)]

RECURSIVE ExecAll(_, _)
ExecAll(S, cmds) ==
    IF cmds = <<>> THEN S ELSE ExecAll(Exec(S, Head(cmds)), Tail(cmds))

\* HGETALL changes no key: only the other commands of a list act on the store
isWrite(c) == c.op # "hGetAll"

\* ExecAll for the command lists of the statement generators
ExecList(S, cmds) == ExecAll(S, SelectSeq(cmds, isWrite))

RECURSIVE Flatten(_)
Flatten(seqs) == IF seqs = <<>> THEN <<>> ELSE Head(seqs) \o Flatten(Tail(seqs))

RECURSIVE SumOver(_, _)
\* sum of field f over a sequence of records
SumOver(seq, f) == IF seq = <<>> THEN 0 ELSE Head(seq)[f] + SumOver(Tail(seq), f)

(***************************************************************************)
(* LedgerService.createJournalEntry / updateGeneralLedger                  *)
(***************************************************************************)
Tolerance == 1

\* ledger.js 71-77: one journal line built from a payload line
lineEntry(line) ==
    [account_code |-> line.account_code,
     debit_amount |-> line.debit,
     credit_amount |-> line.credit]

\* ledger.js 55-82: the journal entry built from the payload
buildJournalEntry(journalId, userId, entryData, clock) ==
    LET entries == [i \in 1..Len(entryData.lines) |-> lineEntry(entryData.lines[i])] IN
    [id |-> journalId,
     user_id |-> userId,
     date |-> IF entryData.date # NoDate THEN entryData.date ELSE clock,
     reference |-> IF "reference" \in DOMAIN entryData THEN entryData.reference
                   ELSE 0,       \* JE-<timestamp>
     description |-> entryData.description,
     total_debit |-> SumOver(entries, "debit_amount"),
     total_credit |-> SumOver(entries, "credit_amount"),
     entries |-> entries]

\* a validator with twice the tolerance
notBalanced_Loose(totalDebit, totalCredit) == Abs(totalDebit - totalCredit) > 2 * Tolerance

\* ledger.js 85
notBalanced(totalDebit, totalCredit) == Abs(totalDebit - totalCredit) > Tolerance

\* a poster that treats every account as debit-normal
balanceChange_DebitNormal(entry) == entry.debit_amount - entry.credit_amount

\* ledger.js 129-139
balanceChange(entry) ==
    IF accountInfoType(entry.account_code) \in {"asset", "expense"}
    THEN entry.debit_amount - entry.credit_amount
    ELSE entry.credit_amount - entry.debit_amount

\* ledger.js 118-144: the commands issued for one line, in order
postLineCmds(userId, date, entry) ==
    LET key == ledgerKey(userId, entry.account_code, date) IN
       (IF entry.debit_amount > 0
        THEN <<Cmd("hIncrByFloat", key, "total_debits", entry.debit_amount, Null)>> ELSE <<>>)
    \o (IF entry.credit_amount > 0
        THEN <<Cmd("hIncrByFloat", key, "total_credits", entry.credit_amount, Null)>> ELSE <<>>)
    \o <<Cmd("hIncrByFloat", key, "balance", balanceChange(entry), Null),
         Cmd("hSet", key, "last_updated", 0, Null),
         Cmd("expire", key, Null, 0, Null)>>

updateGeneralLedgerCmds(userId, journalEntry) ==
    Flatten([i \in 1..Len(journalEntry.entries) |->
                postLineCmds(userId, journalEntry.date, journalEntry.entries[i])])

updateGeneralLedger(S, userId, journalEntry) ==
    ExecAll(S, updateGeneralLedgerCmds(userId, journalEntry))

journalEvent(userId, journalEntry) ==
    [user_id |-> userId, journal_id |-> journalEntry.id, amount |-> journalEntry.total_debit]

\* ledger.js 89-103: the commands issued for an entry that passed validation
createJournalEntryCmds(userId, journalEntry) ==
       <<Cmd("json.set", journalEntry.id, Null, 0, journalEntry),
         Cmd("lPush", userId, Null, 0, journalEntry.id)>>
    \o updateGeneralLedgerCmds(userId, journalEntry)
    \o <<Cmd("xAdd", NoKey, Null, 0, journalEvent(userId, journalEntry))>>

\* ledger.js 53-111: the store after the call and what the call returned
createJournalEntry(S, journalId, userId, entryData, clock) ==
    LET journalEntry == buildJournalEntry(journalId, userId, entryData, clock) IN
    IF notBalanced(journalEntry.total_debit, journalEntry.total_credit)
    THEN [store |-> S, result |-> "BalanceError", journalEntry |-> NoJournal]
    ELSE [store |-> ExecAll(S, createJournalEntryCmds(userId, journalEntry)),
          result |-> "ok", journalEntry |-> journalEntry]

(***************************************************************************)
(* reverseJournalFromLedger (bot.js 78-117, liabilities.js 136-173)        *)
(***************************************************************************)
\* a reversal that treats every account as debit-normal
reverseBalanceChange_DebitNormal(entry) == -(entry.debit_amount - entry.credit_amount)

\* bot.js 95-107: the increment applied to the balance field
reverseBalanceChange(entry) ==
    LET change == -(entry.debit_amount - entry.credit_amount)
        isAssetOrExpense == startsWith(entry.account_code, 1) \/ startsWith(entry.account_code, 5)
    IN IF isAssetOrExpense THEN change ELSE -change

\* a reversal that addresses the bucket without the user's id
reverseLineCmds_SharedBucket(userId, date, entry) ==
    LET key == ledgerKey("u1", entry.account_code, date) IN
       (IF entry.debit_amount > 0
        THEN <<Cmd("hIncrByFloat", key, "total_debits", -entry.debit_amount, Null)>> ELSE <<>>)
    \o (IF entry.credit_amount > 0
        THEN <<Cmd("hIncrByFloat", key, "total_credits", -entry.credit_amount, Null)>> ELSE <<>>)
    \o <<Cmd("hIncrByFloat", key, "balance", reverseBalanceChange(entry), Null),
         Cmd("hSet", key, "last_updated", 0, Null)>>

\* bot.js 83-110: the commands issued for one line, in order
reverseLineCmds(userId, date, entry) ==
    LET key == ledgerKey(userId, entry.account_code, date) IN
       (IF entry.debit_amount > 0
        THEN <<Cmd("hIncrByFloat", key, "total_debits", -entry.debit_amount, Null)>> ELSE <<>>)
    \o (IF entry.credit_amount > 0
        THEN <<Cmd("hIncrByFloat", key, "total_credits", -entry.credit_amount, Null)>> ELSE <<>>)
    \o <<Cmd("hIncrByFloat", key, "balance", reverseBalanceChange(entry), Null),
         Cmd("hSet", key, "last_updated", 0, Null)>>

reverseJournalFromLedgerCmds(userId, journalEntry) ==
    Flatten([i \in 1..Len(journalEntry.entries) |->
                reverseLineCmds(userId, journalEntry.date, journalEntry.entries[i])])

reverseJournalFromLedger(S, userId, journalEntry) ==
    ExecAll(S, reverseJournalFromLedgerCmds(userId, journalEntry))

\* bot.js 1830-1834, liabilities.js 115-118: reverse, then remove the record
deleteJournalCmds(userId, journalEntry) ==
       reverseJournalFromLedgerCmds(userId, journalEntry)
    \o <<Cmd("del", journalEntry.id, Null, 0, Null),
         Cmd("lRem", userId, Null, 0, journalEntry.id)>>

(***************************************************************************)
(* AIService.parseJournalEntry (ai.js 761-769): the reply of the language  *)
(* model after JSON.parse is an input; the function returns it only when   *)
(* it has at least two lines whose raw sums differ by less than 0.01.      *)
(* The sums are taken with + on the raw JSON values.  A payload is quoted  *)
(* when its non-zero amounts arrive as JSON strings, the decimal text of a *)
(* whole number of currency units, and its zero amounts as the number 0.   *)
(***************************************************************************)
Unit == 100

RECURSIVE Pow10(_)
Pow10(n) == IF n = 0 THEN 1 ELSE 10 * Pow10(n - 1)

RECURSIVE DecimalLength(_)
\* String(n).length for a natural number n
DecimalLength(n) == IF n < 10 THEN 1 ELSE 1 + DecimalLength(n \div 10)

\* String(sum) + String(x), read back as a number
jsConcat(sum, x) == sum * Pow10(DecimalLength(x)) + x

RECURSIVE jsSumQuoted(_, _, _, _)
\* lines.reduce((sum, line) => sum + (line[f] || 0), 0) on a quoted payload,
\* in currency units: the sum is a number while only zeros were added and
\* a string from the first quoted amount on
jsSumQuoted(lines, f, sum, isString) ==
    IF lines = <<>> THEN sum
    ELSE LET x == Head(lines)[f] \div Unit IN
         IF x = 0 /\ ~isString
         THEN jsSumQuoted(Tail(lines), f, sum, FALSE)
         ELSE jsSumQuoted(Tail(lines), f, jsConcat(sum, x), TRUE)

\* the raw sum of field f, in units of 0.01
jsSum(parsed, f) ==
    IF parsed.quoted THEN Unit * jsSumQuoted(parsed.lines, f, 0, FALSE)
    ELSE SumOver(parsed.lines, f)

parseJournalEntryAccepts(parsed) ==
    /\ Len(parsed.lines) >= 2
    /\ Abs(jsSum(parsed, "debit") - jsSum(parsed, "credit")) < Tolerance

(***************************************************************************)
(* The conversation of one user with the bot                               *)
(***************************************************************************)
ListLimit == 10

NoState == [state |-> "none", ids |-> <<>>, journals |-> <<>>, journal |-> NoJournal,
            liabilities |-> <<>>, transactions |-> <<>>, assets |-> <<>>]

Take(seq, n) == SubSeq(seq, 1, IF Len(seq) < n THEN Len(seq) ELSE n)

RECURSIVE SelectSeqBy(_, _)
\* the elements of a sequence that are in a set, in order
SelectSeqBy(seq, keep) ==
    IF seq = <<>> THEN <<>>
    ELSE (IF Head(seq) \in keep THEN <<Head(seq)>> ELSE <<>>) \o SelectSeqBy(Tail(seq), keep)

\* bot.js 443-461: the stored journals of the list, at most ten
validJournals(userId) ==
    LET ids == SelectSeqBy(userJournals[userId], {id \in DOMAIN journal : journal[id] # NoJournal})
        shown == Take(ids, ListLimit)
    IN [i \in 1..Len(shown) |-> journal[shown[i]]]

\* what a handler answered, the entry it posted and the entry it reversed
Answer(op, result, posted, reversed) ==
    [result |-> result, posted |-> posted, reversed |-> reversed]

Store == [ledger |-> ledger, journal |-> journal, userJournals |-> userJournals,
          journal_entries |-> journal_entries]

SetStore(S) ==
    /\ ledger' = S.ledger
    /\ journal' = S.journal
    /\ userJournals' = S.userJournals
    /\ journal_entries' = S.journal_entries

storeVars == <<ledger, journal, userJournals, journal_entries>>
liabilityVars == <<liability, userLiabilities>>

SetState(userId, st) == userState' = [userState EXCEPT ![userId] = st]

\* bot.js 291-311.  The pattern /\/journal/ is not anchored: it also fires
\* on /journal_list, /journal_edit and /journal_delete, before their handler.
JournalHandlerState == [NoState EXCEPT !.state = "awaiting_journal_entry"]

MsgJournal(userId) ==
    /\ SetState(userId, JournalHandlerState)
    /\ ret' = Answer("/journal", "prompt", NoJournal, NoJournal)
    /\ UNCHANGED <<storeVars, liabilityVars, nextId, edits, now>>

\* bot.js 314-363
MsgJournalList(userId) ==
    /\ IF userJournals[userId] = <<>>
       THEN /\ SetState(userId, JournalHandlerState)
            /\ ret' = Answer("/journal_list", "empty", NoJournal, NoJournal)
       ELSE /\ SetState(userId, [NoState EXCEPT !.state = "awaiting_journal_view_number",
                                               !.ids = Take(userJournals[userId], ListLimit)])
            /\ ret' = Answer("/journal_list", "listed", NoJournal, NoJournal)
    /\ UNCHANGED <<storeVars, liabilityVars, nextId, edits, now>>

\* bot.js 366-425 (/journal_edit) and 427-486 (/journal_delete)
MsgJournalPick(userId, command, awaiting) ==
    /\ IF userJournals[userId] = <<>> \/ validJournals(userId) = <<>>
       THEN /\ SetState(userId, JournalHandlerState)
            /\ ret' = Answer(command, "empty", NoJournal, NoJournal)
       ELSE /\ SetState(userId, [NoState EXCEPT !.state = awaiting,
                                               !.journals = validJournals(userId)])
            /\ ret' = Answer(command, "listed", NoJournal, NoJournal)
    /\ UNCHANGED <<storeVars, liabilityVars, nextId, edits, now>>

MsgJournalEdit(userId) == MsgJournalPick(userId, "/journal_edit", "awaiting_journal_edit_number")
MsgJournalDelete(userId) == MsgJournalPick(userId, "/journal_delete", "awaiting_journal_delete_number")

\* bot.js 1736-1775: a text while awaiting_journal_entry
TextJournalEntry(userId, parsedJournal) ==
    /\ userState[userId].state = "awaiting_journal_entry"
    /\ IF parsedJournal # NoJournal
       THEN /\ nextId < MaxJournals
            /\ LET r == createJournalEntry(Store, nextId + 1, userId, parsedJournal, now) IN
                /\ SetStore(r.store)
                /\ ret' = Answer("journal_entry", r.result, r.journalEntry, NoJournal)
            /\ nextId' = nextId + 1
       ELSE /\ ret' = Answer("journal_entry", "parse_error", NoJournal, NoJournal)
            /\ UNCHANGED <<storeVars, nextId>>
    /\ SetState(userId, NoState)
    /\ UNCHANGED <<liabilityVars, edits, now>>

\* bot.js 1777-1819: a text while awaiting_journal_view_number (read only)
TextJournalView(userId, number) ==
    /\ userState[userId].state = "awaiting_journal_view_number"
    /\ ret' = Answer("journal_view",
                     IF number >= 1 /\ number <= Len(userState[userId].ids)
                     THEN "shown" ELSE "invalid_number", NoJournal, NoJournal)
    /\ SetState(userId, NoState)
    /\ UNCHANGED <<storeVars, liabilityVars, nextId, edits, now>>

\* bot.js 1821-1847: a text while awaiting_journal_delete_number
TextJournalDelete(userId, number) ==
    /\ userState[userId].state = "awaiting_journal_delete_number"
    /\ LET journals == userState[userId].journals IN
       IF number >= 1 /\ number <= Len(journals)
       THEN LET journalToDelete == journals[number] IN
            /\ SetStore(ExecAll(Store, deleteJournalCmds(userId, journalToDelete)))
            /\ ret' = Answer("journal_delete", "deleted", NoJournal, journalToDelete)
       ELSE /\ ret' = Answer("journal_delete", "invalid_number", NoJournal, NoJournal)
            /\ UNCHANGED storeVars
    /\ SetState(userId, NoState)
    /\ UNCHANGED <<liabilityVars, nextId, edits, now>>

\* bot.js 1849-1890: a text while awaiting_journal_edit_number
TextJournalEditNumber(userId, number) ==
    /\ userState[userId].state = "awaiting_journal_edit_number"
    /\ LET journals == userState[userId].journals IN
       IF number >= 1 /\ number <= Len(journals)
       THEN /\ SetState(userId, [NoState EXCEPT !.state = "awaiting_journal_edit_option",
                                               !.journal = journals[number]])
            /\ ret' = Answer("journal_edit_number", "options", NoJournal, NoJournal)
       ELSE /\ SetState(userId, NoState)
            /\ ret' = Answer("journal_edit_number", "invalid_number", NoJournal, NoJournal)
    /\ UNCHANGED <<storeVars, liabilityVars, nextId, edits, now>>

\* bot.js 1892-1926: a text while awaiting_journal_edit_option
TextJournalEditOption(userId, option) ==
    /\ userState[userId].state = "awaiting_journal_edit_option"
    /\ LET journalToEdit == userState[userId].journal
           next == CASE option = 1 -> "awaiting_journal_edit_description"
                     [] option = 2 -> "awaiting_journal_edit_accounts"
                     [] option = 3 -> "awaiting_journal_edit_amounts"
                     [] option = 4 -> "awaiting_journal_edit_replace"
                     [] OTHER -> "none"
       IN
       /\ IF option \in 1..4
          THEN SetState(userId, [NoState EXCEPT !.state = next, !.journal = journalToEdit])
          ELSE IF option = 5 THEN SetState(userId, NoState)
          ELSE UNCHANGED userState
       /\ ret' = Answer("journal_edit_option",
                        IF option \in 1..4 THEN "prompt"
                        ELSE IF option = 5 THEN "cancelled" ELSE "invalid_option",
                        NoJournal, NoJournal)
    /\ UNCHANGED <<storeVars, liabilityVars, nextId, edits, now>>

\* redis JSON.SET key path value on a path below the root fails when the
\* document does not exist
jsonSetPath(J, id, field, value) ==
    IF J[id] = NoJournal THEN J ELSE [J EXCEPT ![id][field] = value]

\* bot.js 1928-1950: a text while awaiting_journal_edit_description
TextJournalEditDescription(userId, newDescription) ==
    /\ userState[userId].state = "awaiting_journal_edit_description"
    /\ LET journalToEdit == userState[userId].journal IN
       IF journal[journalToEdit.id] = NoJournal
       THEN /\ ret' = Answer("journal_edit_description", "failed", NoJournal, NoJournal)
            /\ UNCHANGED journal
       ELSE /\ journal' = jsonSetPath(journal, journalToEdit.id, "description", newDescription)
            /\ ret' = Answer("journal_edit_description", "updated", NoJournal, NoJournal)
    /\ SetState(userId, NoState)
    /\ UNCHANGED <<ledger, userJournals, journal_entries, liabilityVars, nextId, edits, now>>

\* bot.js 1966-1983: the lines and totals of the replacement
replacementEntries(parsedJournal) ==
    [i \in 1..Len(parsedJournal.lines) |-> lineEntry(parsedJournal.lines[i])]

\* bot.js 1992-2000
updatedJournalOf(journalToEdit, parsedJournal) ==
    LET newEntries == replacementEntries(parsedJournal) IN
    [journalToEdit EXCEPT
        !.description = parsedJournal.description,
        !.total_debit = SumOver(newEntries, "debit_amount"),
        !.total_credit = SumOver(newEntries, "credit_amount"),
        !.entries = newEntries]

\* bot.js 1952-2022: a text while awaiting_journal_edit_accounts, _amounts
\* or _replace
TextJournalEditReplace(userId, parsedJournal) ==
    /\ userState[userId].state \in {"awaiting_journal_edit_accounts",
                                    "awaiting_journal_edit_amounts",
                                    "awaiting_journal_edit_replace"}
    /\ edits < MaxEdits
    /\ edits' = edits + 1
    /\ LET journalToEdit == userState[userId].journal IN
       IF parsedJournal = NoJournal
       THEN /\ ret' = Answer("journal_edit_replace", "parse_error", NoJournal, NoJournal)
            /\ UNCHANGED storeVars
            /\ SetState(userId, NoState)
       ELSE LET reversed == reverseJournalFromLedger(Store, userId, journalToEdit)
                updatedJournal == updatedJournalOf(journalToEdit, parsedJournal)
            IN
            IF notBalanced(updatedJournal.total_debit, updatedJournal.total_credit)
            THEN /\ SetStore(reversed)
                 /\ ret' = Answer("journal_edit_replace", "BalanceError", NoJournal, journalToEdit)
                 /\ UNCHANGED userState
            ELSE /\ SetStore(updateGeneralLedger(
                        Exec(reversed, Cmd("json.set", journalToEdit.id, Null, 0, updatedJournal)),
                        userId, updatedJournal))
                 /\ ret' = Answer("journal_edit_replace", "updated", updatedJournal, journalToEdit)
                 /\ SetState(userId, NoState)
    /\ UNCHANGED <<liabilityVars, nextId, now>>

(***************************************************************************)
(* LiabilityService and its conversation (liabilities.js, bot.js)          *)
(***************************************************************************)
NoLiability == [id |-> 0]

\* liabilities.js 31-38
liabilityAccountCode(type) ==
    CASE type \in {"loan", "credit_card"} -> 2200
      [] type \in {"mortgage", "business_loan"} -> 2500
      [] OTHER -> 2000

\* liabilities.js 40-57: the journal payload of a new liability
liabilityEntryData(liabilityData) ==
    [description |-> "liability",
     date |-> NoDate,
     lines |-> <<[account_code |-> 1100, debit |-> liabilityData.balance, credit |-> 0],
                 [account_code |-> liabilityAccountCode(liabilityData.type),
                  debit |-> 0, credit |-> liabilityData.balance]>>]

RECURSIVE InsertByBalance(_, _)
InsertByBalance(sorted, l) ==
    IF sorted = <<>> THEN <<l>>
    ELSE IF Head(sorted).current_balance_myr < l.current_balance_myr
         THEN <<l>> \o sorted
         ELSE <<Head(sorted)>> \o InsertByBalance(Tail(sorted), l)

RECURSIVE SortByBalance(_)
\* Array.prototype.sort((a, b) => b.current_balance_myr - a.current_balance_myr)
SortByBalance(seq) ==
    IF seq = <<>> THEN <<>>
    ELSE InsertByBalance(SortByBalance(SubSeq(seq, 1, Len(seq) - 1)), seq[Len(seq)])

\* liabilities.js 75-98
getUserLiabilities(userId) ==
    LET ids == SelectSeqBy(userLiabilities[userId],
                           {id \in DOMAIN liability : liability[id] # NoLiability
                                                      /\ liability[id].is_active})
    IN SortByBalance([i \in 1..Len(ids) |-> liability[ids[i]]])

\* bot.js 1111-1127
MsgLiabilitiesAdd(userId) ==
    /\ SetState(userId, [NoState EXCEPT !.state = "awaiting_liability_input"])
    /\ ret' = Answer("/liabilities_add", "prompt", NoJournal, NoJournal)
    /\ UNCHANGED <<storeVars, liabilityVars, nextId, edits, now>>

\* bot.js 1129-1164
MsgLiabilitiesDelete(userId) ==
    /\ IF getUserLiabilities(userId) = <<>>
       THEN /\ ret' = Answer("/liabilities_delete", "empty", NoJournal, NoJournal)
            /\ UNCHANGED userState
       ELSE /\ SetState(userId, [NoState EXCEPT !.state = "awaiting_liability_delete_number",
                                               !.liabilities = getUserLiabilities(userId)])
            /\ ret' = Answer("/liabilities_delete", "listed", NoJournal, NoJournal)
    /\ UNCHANGED <<storeVars, liabilityVars, nextId, edits, now>>

LiabilityIds == 1..(MaxJournals + 1)
NextLiabilityId == Cardinality({id \in DOMAIN liability : liability[id] # NoLiability}) + 1

\* bot.js 1702-1733 with liabilities.js 6-72: a text while
\* awaiting_liability_input
TextLiabilityInput(userId, parsedLiability) ==
    /\ userState[userId].state = "awaiting_liability_input"
    /\ IF parsedLiability.value # 0
       THEN /\ nextId < MaxJournals
            /\ LET liabilityId == NextLiabilityId
                   liabilityData == [type |-> parsedLiability.type, balance |-> parsedLiability.value]
                   r == createJournalEntry(Store, nextId + 1, userId,
                                           liabilityEntryData(liabilityData), now)
               IN
               /\ SetStore(r.store)
               /\ liability' = [liability EXCEPT ![liabilityId] =
                                    [id |-> liabilityId,
                                     user_id |-> userId,
                                     type |-> liabilityData.type,
                                     current_balance_myr |-> liabilityData.balance,
                                     is_active |-> TRUE,
                                     journal_entry_id |->
                                        IF r.result = "ok" THEN r.journalEntry.id ELSE 0]]
               /\ userLiabilities' = [userLiabilities EXCEPT ![userId] = <<liabilityId>> \o @]
               /\ ret' = Answer("liability_input", "added", r.journalEntry, NoJournal)
            /\ nextId' = nextId + 1
       ELSE /\ ret' = Answer("liability_input", "parse_error", NoJournal, NoJournal)
            /\ UNCHANGED <<storeVars, liabilityVars, nextId>>
    /\ SetState(userId, NoState)
    /\ UNCHANGED <<edits, now>>

\* bot.js 1648-1671 with liabilities.js 100-134: a text while
\* awaiting_liability_delete_number
TextLiabilityDelete(userId, number) ==
    /\ userState[userId].state = "awaiting_liability_delete_number"
    /\ LET liabilityList == userState[userId].liabilities IN
       IF number >= 1 /\ number <= Len(liabilityList)
       THEN LET doc == liability[liabilityList[number].id]
                journalEntry == IF doc.journal_entry_id # 0
                                THEN journal[doc.journal_entry_id] ELSE NoJournal
            IN
            IF doc = NoLiability \/ doc.user_id # userId
            THEN /\ ret' = Answer("liability_delete", "failed", NoJournal, NoJournal)
                 /\ UNCHANGED <<storeVars, liabilityVars>>
            ELSE /\ IF journalEntry # NoJournal
                    THEN SetStore(ExecAll(Store, deleteJournalCmds(userId, journalEntry)))
                    ELSE UNCHANGED storeVars
                 /\ liability' = [liability EXCEPT ![doc.id].is_active = FALSE]
                 /\ UNCHANGED userLiabilities
                 /\ ret' = Answer("liability_delete", "deleted", NoJournal, journalEntry)
       ELSE /\ ret' = Answer("liability_delete", "invalid_number", NoJournal, NoJournal)
            /\ UNCHANGED <<storeVars, liabilityVars>>
    /\ SetState(userId, NoState)
    /\ UNCHANGED <<nextId, edits, now>>

(***************************************************************************)
(* Time.  A conversation state lives one hour (redis.js 69, 85), so none   *)
(* survives into the next calendar month.                                  *)
(***************************************************************************)
StateExpires(userId) ==
    /\ userState[userId].state # "none"
    /\ SetState(userId, NoState)
    /\ ret' = Answer("expire", "ok", NoJournal, NoJournal)
    /\ UNCHANGED <<storeVars, liabilityVars, nextId, edits, steps, now>>

Tick ==
    /\ NextMonth(now) \in Dates
    /\ now' = NextMonth(now)
    /\ userState' = [u \in Users |-> NoState]
    /\ ret' = Answer("tick", "ok", NoJournal, NoJournal)
    /\ UNCHANGED <<storeVars, liabilityVars, nextId, edits, steps>>

(***************************************************************************)
(* Inputs                                                                  *)
(***************************************************************************)
BotCodes == {1100, 1999}
OneSided == {<<a, 0>> : a \in 1..MaxAmount} \cup {<<0, a>> : a \in 1..MaxAmount}
BotLines == {[account_code |-> c, debit |-> s[1], credit |-> s[2]] : c \in BotCodes, s \in OneSided}
BotLineSeqs == UNION {[1..n -> BotLines] : n \in 2..MaxLines}
\* what parseJournalEntry can return: null or a payload it accepts
QuotedAmounts == {5 * Unit, 50 * Unit}
QuotedLines ==
    {[account_code |-> 1100, debit |-> a, credit |-> 0] : a \in QuotedAmounts} \cup
    {[account_code |-> 1100, debit |-> 0, credit |-> a] : a \in QuotedAmounts}
QuotedLineSeqs == UNION {[1..n -> QuotedLines] : n \in 2..MaxLines}
ParsedJournals ==
    {NoJournal} \cup
    {p \in [description : {"d"}, date : {NoDate}, lines : BotLineSeqs, quoted : {FALSE}] \cup
           [description : {"d"}, date : {NoDate}, lines : QuotedLineSeqs, quoted : {TRUE}] :
        parseJournalEntryAccepts(p)}
ParsedLiabilities == [type : {"loan"}, value : 0..MaxAmount]
Numbers == 0..(MaxJournals + 1)
Options == 0..5

NoCall == [phase |-> "none"]
NoProcs == <<>>
NoRead == [key |-> NoKey, bucket |-> EmptyBucket]
NoReport == [kind |-> "none"]
NoTransaction == [id |-> 0]            \* redis.json.get of a missing transaction: null
NoAsset == [id |-> 0]                  \* redis.json.get of a missing asset: null
NoRecurring == [id |-> 0]              \* redis.json.get of a missing recurring item: null
Uuids == 1..(2 * MaxJournals)          \* the uuids a run may draw
TelegramIds == {1, 2, 12}              \* msg.from.id of the users of the AI assistant

\* the keys of RedisService at start: nothing stored
InitOther ==
    /\ transaction = [id \in Uuids |-> NoTransaction]
    /\ userTransactions = [u \in Users |-> <<>>]
    /\ metrics = <<>>
    /\ ai_cache = <<>>
    /\ recurring = [id \in Uuids |-> NoRecurring]
    /\ active_recurring = {}
    /\ events = <<>>
    /\ cache_hits = [u \in TelegramIds |-> 0]
    /\ ai_context = [u \in TelegramIds |-> <<>>]
    /\ expires = <<>>
    /\ asset = [id \in Uuids |-> NoAsset]
    /\ userAssets = [u \in Users |-> <<>>]

InitStore ==
    /\ ledger = <<>>
    /\ journal = [id \in JournalIds |-> NoJournal]
    /\ userJournals = [u \in Users |-> <<>>]
    /\ journal_entries = <<>>
    /\ nextId = 0
    /\ liability = [id \in LiabilityIds |-> NoLiability]
    /\ userLiabilities = [u \in Users |-> <<>>]
    /\ userState = [u \in Users |-> NoState]
    /\ edits = 0
    /\ steps = 0
    /\ now = FirstMonth
    /\ ret = Answer("init", "ok", NoJournal, NoJournal)

Init ==
    /\ InitStore /\ call = NoCall /\ procs = NoProcs /\ observed = NoRead /\ report = NoReport
    /\ InitOther

Handle ==
    \/ \E u \in Users : MsgJournal(u)
    \/ \E u \in Users : MsgJournalList(u)
    \/ \E u \in Users : MsgJournalEdit(u)
    \/ \E u \in Users : MsgJournalDelete(u)
    \/ \E u \in Users, p \in ParsedJournals : TextJournalEntry(u, p)
    \/ \E u \in Users, n \in Numbers : TextJournalView(u, n)
    \/ \E u \in Users, n \in Numbers : TextJournalDelete(u, n)
    \/ \E u \in Users, n \in Numbers : TextJournalEditNumber(u, n)
    \/ \E u \in Users, o \in Options : TextJournalEditOption(u, o)
    \/ \E u \in Users : TextJournalEditDescription(u, "d2")
    \/ \E u \in Users, p \in ParsedJournals : TextJournalEditReplace(u, p)
    \/ \E u \in Users : MsgLiabilitiesAdd(u)
    \/ \E u \in Users : MsgLiabilitiesDelete(u)
    \/ \E u \in Users, l \in ParsedLiabilities : TextLiabilityInput(u, l)
    \/ \E u \in Users, n \in Numbers : TextLiabilityDelete(u, n)

\* one message is handled, a conversation state expires, or the month ends
Next ==
    \/ steps < MaxSteps /\ steps' = steps + 1 /\ Handle /\ UNCHANGED <<call, procs, observed, report, otherVars>>
    \/ \E u \in Users : StateExpires(u) /\ UNCHANGED <<call, procs, observed, report, otherVars>>
    \/ Tick /\ UNCHANGED <<call, procs, observed, report, otherVars>>

Spec == Init /\ [][Next]_vars

(***************************************************************************)
(* The ledger service used directly: one payload is created, reversed and  *)
(* posted again, on top of an entry posted before.                         *)
(***************************************************************************)
EntryCodes == {1100, 1600, 2200, 3000, 4000, 5100, 1999, 6000}
Amounts == 0..MaxAmount
EntryLines == [account_code : EntryCodes, debit : Amounts, credit : Amounts]
\* the first line is on any account of the sample, the others on cash or a loan
FurtherCodes == {1100, 2200}
FurtherLines == [account_code : FurtherCodes, debit : Amounts, credit : Amounts]
EntryLineSeqs ==
    {<<l>> \o t : l \in EntryLines,
                  t \in UNION {[1..n -> FurtherLines] : n \in 0..(MaxLines - 1)}}
EntryInputs == [description : {"d"}, date : {NoDate}, lines : EntryLineSeqs]

SeedEntry ==
    [description |-> "seed", date |-> NoDate,
     lines |-> <<[account_code |-> 1100, debit |-> MaxAmount, credit |-> 0],
                 [account_code |-> 4000, debit |-> 0, credit |-> MaxAmount]>>]

botVars == <<liability, userLiabilities, userState, edits, steps, now>>

InitEntry ==
    /\ InitStore
    /\ procs = NoProcs
    /\ observed = NoRead
    /\ report = NoReport
    /\ InitOther
    /\ call \in [phase : {"seed"}, userId : {"u1"}, entryData : EntryInputs,
                 before : {Store}, posted : {Store}]

EntrySeed ==
    /\ call.phase = "seed"
    /\ LET r == createJournalEntry(Store, nextId + 1, call.userId, SeedEntry, now) IN
        /\ SetStore(r.store)
        /\ ret' = Answer("createJournalEntry", r.result, r.journalEntry, NoJournal)
        /\ call' = [call EXCEPT !.phase = "pending", !.before = Store, !.posted = r.store]
    /\ nextId' = nextId + 1
    /\ UNCHANGED botVars

\* LedgerService.createJournalEntry(userId, entryData)
EntryCreate ==
    /\ call.phase = "pending"
    /\ LET r == createJournalEntry(Store, nextId + 1, call.userId, call.entryData, now) IN
        /\ SetStore(r.store)
        /\ ret' = Answer("createJournalEntry", r.result, r.journalEntry, NoJournal)
        /\ call' = [call EXCEPT !.phase = IF r.result = "ok" THEN "created" ELSE "rejected",
                                !.before = Store, !.posted = r.store]
    /\ nextId' = nextId + 1
    /\ UNCHANGED botVars

\* reverseJournalFromLedger(userId, journalEntry) of the stored entry
EntryReverse ==
    /\ call.phase = "created"
    /\ SetStore(reverseJournalFromLedger(Store, call.userId, ret.posted))
    /\ ret' = Answer("reverseJournalFromLedger", "ok", NoJournal, ret.posted)
    /\ call' = [call EXCEPT !.phase = "reversed", !.before = Store]
    /\ UNCHANGED <<nextId, botVars>>

\* LedgerService.updateGeneralLedger(userId, journalEntry) of the same entry
EntryRepost ==
    /\ call.phase = "reversed"
    /\ SetStore(updateGeneralLedger(Store, call.userId, ret.reversed))
    /\ ret' = Answer("updateGeneralLedger", "ok", ret.reversed, NoJournal)
    /\ call' = [call EXCEPT !.phase = "reposted", !.before = Store]
    /\ UNCHANGED <<nextId, botVars>>

NextEntry ==
    \/ EntrySeed /\ UNCHANGED <<procs, observed, report, otherVars>>
    \/ EntryCreate /\ UNCHANGED <<procs, observed, report, otherVars>>
    \/ EntryReverse /\ UNCHANGED <<procs, observed, report, otherVars>>
    \/ EntryRepost /\ UNCHANGED <<procs, observed, report, otherVars>>

EntrySpec == InitEntry /\ [][NextEntry]_vars

(***************************************************************************)
(* The same calls for either user, with or without a date in the payload,  *)
(* in any month of the clock, on a ledger where both users have posted.    *)
(***************************************************************************)
RECURSIVE SeedAll(_, _, _)
\* SeedEntry posted once for each of the users, under ids 1, 2, ...
SeedAll(S, users, id) ==
    IF users = {} THEN S
    ELSE LET u == CHOOSE x \in users : TRUE IN
         SeedAll(createJournalEntry(S, id, u, SeedEntry, FirstMonth).store, users \ {u}, id + 1)

FrameBase ==
    SeedAll([ledger |-> <<>>,
             journal |-> [id \in 1..(Cardinality(Users) + 1) |-> NoJournal],
             userJournals |-> [u \in Users |-> <<>>],
             journal_entries |-> <<>>], Users, 1)

FrameInputs == [description : {"d"}, date : {NoDate} \cup Dates, lines : BotLineSeqs]

InitFrame ==
    /\ ledger = FrameBase.ledger
    /\ journal = FrameBase.journal
    /\ userJournals = FrameBase.userJournals
    /\ journal_entries = FrameBase.journal_entries
    /\ nextId = Cardinality(Users)
    /\ liability = [id \in LiabilityIds |-> NoLiability]
    /\ userLiabilities = [u \in Users |-> <<>>]
    /\ userState = [u \in Users |-> NoState]
    /\ edits = 0
    /\ steps = 0
    /\ now \in Dates
    /\ ret = Answer("init", "ok", NoJournal, NoJournal)
    /\ procs = NoProcs
    /\ observed = NoRead
    /\ report = NoReport
    /\ InitOther
    /\ call \in [phase : {"pending"}, userId : Users, entryData : FrameInputs,
                 before : {FrameBase}, posted : {FrameBase}]

NextFrame ==
    \/ EntryCreate /\ UNCHANGED <<procs, observed, report, otherVars>>
    \/ EntryReverse /\ UNCHANGED <<procs, observed, report, otherVars>>
    \/ EntryRepost /\ UNCHANGED <<procs, observed, report, otherVars>>

FrameSpec == InitFrame /\ [][NextFrame]_vars

(***************************************************************************)
(* Concurrent requests.  Every await of ledger.js 89-103, 118-144 and      *)
(* bot.js 83-110, 1830-1834 is one command sent to the server; commands of *)
(* different requests interleave, any command can throw, and the caller of *)
(* a request that threw can submit it again.  getTrialBalance (ledger.js   *)
(* 160-161) reads one bucket with one HGETALL.                             *)
(***************************************************************************)
ProcIds == 1..MaxProcs
ConcUser == "u1"
ConcJournalIds == 1..(1 + MaxProcs * (MaxFailures + 1))

\* the uuid drawn by a submission of request p after so many failed ones;
\* request 0 is the entry posted before the others start
NewId(p, attempts) == 1 + p + MaxProcs * attempts
SeedId == NewId(0, 0)

ConcEntries ==
    {[description |-> "d", date |-> NoDate,
      lines |-> <<[account_code |-> 1100, debit |-> MaxAmount, credit |-> 0],
                  [account_code |-> 4000, debit |-> 0, credit |-> MaxAmount]>>],
     [description |-> "d", date |-> NoDate,
      lines |-> <<[account_code |-> 5100, debit |-> MaxAmount, credit |-> 0],
                  [account_code |-> 1100, debit |-> 0, credit |-> MaxAmount]>>]}

\* the store the requests start from: one entry posted
ConcBase ==
    createJournalEntry([ledger |-> <<>>,
                        journal |-> [id \in ConcJournalIds |-> NoJournal],
                        userJournals |-> [u \in Users |-> <<>>],
                        journal_entries |-> <<>>],
                       SeedId, ConcUser, SeedEntry, FirstMonth).store


\* the commands a request issues, in order
Program(kind, id, entryData) ==
    IF kind = "create"
    THEN createJournalEntryCmds(ConcUser, buildJournalEntry(id, ConcUser, entryData, FirstMonth))
    ELSE deleteJournalCmds(ConcUser, ConcBase.journal[SeedId])

Proc(kind, id, entryData) ==
    [kind |-> kind, entryData |-> entryData, cmds |-> Program(kind, id, entryData),
     pc |-> 1, status |-> "running", attempts |-> 0, applied |-> 0]

ProcChoices(p) ==
    {Proc("create", NewId(p, 0), e) : e \in ConcEntries} \cup {Proc("delete", SeedId, SeedEntry)}

RECURSIVE Increments(_, _)
\* how many of the first n commands are increments of a bucket field
Increments(cmds, n) ==
    IF n = 0 THEN 0
    ELSE (IF cmds[n].op = "hIncrByFloat" THEN 1 ELSE 0) + Increments(cmds, n - 1)

RECURSIVE TotalFailures(_, _)
TotalFailures(P, n) == IF n = 0 THEN 0 ELSE P[n].attempts + TotalFailures(P, n - 1)

ConcKeys == {ledgerKey(ConcUser, a, FirstMonth) : a \in {1100, 4000, 5100}}

restVars == <<nextId, liability, userLiabilities, userState, edits, steps, now, ret, call, report, otherVars>>

InitConc ==
    /\ ledger = ConcBase.ledger
    /\ journal = ConcBase.journal
    /\ userJournals = ConcBase.userJournals
    /\ journal_entries = ConcBase.journal_entries
    /\ nextId = 1
    /\ liability = [id \in LiabilityIds |-> NoLiability]
    /\ userLiabilities = [u \in Users |-> <<>>]
    /\ userState = [u \in Users |-> NoState]
    /\ edits = 0
    /\ steps = 0
    /\ now = FirstMonth
    /\ ret = Answer("init", "ok", NoJournal, NoJournal)
    /\ call = NoCall
    /\ procs \in {P \in [ProcIds -> UNION {ProcChoices(p) : p \in ProcIds}] :
                    \A p \in ProcIds : P[p] \in ProcChoices(p)}
    /\ observed = NoRead
    /\ report = NoReport
    /\ InitOther

\* the server executes the next command of request p
ProcStep(p) ==
    /\ procs[p].status = "running"
    /\ procs[p].pc <= Len(procs[p].cmds)
    /\ SetStore(Exec(Store, procs[p].cmds[procs[p].pc]))
    /\ procs' = [procs EXCEPT ![p].pc = @ + 1,
                              ![p].status = IF procs[p].pc = Len(procs[p].cmds)
                                            THEN "done" ELSE "running"]
    /\ UNCHANGED <<restVars, observed>>

\* the next command of request p throws: the request returns its error
\* (ledger.js 106-109, 145-148, bot.js 113-116)
ProcFail(p) ==
    /\ procs[p].status = "running"
    /\ procs[p].pc <= Len(procs[p].cmds)
    /\ TotalFailures(procs, MaxProcs) < MaxFailures
    /\ procs' = [procs EXCEPT ![p].status = "failed",
                              ![p].attempts = @ + 1,
                              ![p].applied = Increments(procs[p].cmds, procs[p].pc - 1)]
    /\ UNCHANGED <<storeVars, restVars, observed>>

\* the caller submits the failed request again: a creation draws a new
\* uuid, a deletion finds the journal in the list only while it is stored
ProcRetry(p) ==
    /\ procs[p].status = "failed"
    /\ LET q == procs[p]
           cmds == IF q.kind = "delete" /\ journal[SeedId] = NoJournal
                   THEN <<>>
                   ELSE Program(q.kind, NewId(p, q.attempts), q.entryData)
       IN procs' = [procs EXCEPT ![p].cmds = cmds, ![p].pc = 1,
                                 ![p].status = IF cmds = <<>> THEN "done" ELSE "running"]
    /\ UNCHANGED <<storeVars, restVars, observed>>

\* ledger.js 160-161: a statement generator reads one bucket
ReadBucket(key) ==
    /\ observed' = [key |-> key, bucket |-> hGetAll(ledger, key)]
    /\ UNCHANGED <<storeVars, restVars, procs>>

\* requests that run to completion
NextConc == \E p \in ProcIds : ProcStep(p)

ConcSpec == InitConc /\ [][NextConc]_vars

\* the same requests beside a statement generator
NextRead ==
    \/ \E p \in ProcIds : ProcStep(p)
    \/ \E k \in ConcKeys : ReadBucket(k)

ReadSpec == InitConc /\ [][NextRead]_vars

\* the same requests on a store whose commands can fail
NextFail ==
    \/ \E p \in ProcIds : ProcStep(p)
    \/ \E p \in ProcIds : ProcFail(p)
    \/ \E p \in ProcIds : ProcRetry(p)

FailSpec == InitConc /\ [][NextFail]_vars

(***************************************************************************)
(* Statement generators (ledger.js 151-506).  A statement argument is a    *)
(* local calendar day [year, month, day], at midnight; the buckets a       *)
(* generator reads are the HGETALL commands it issues, in order.           *)
(***************************************************************************)
Day(y, m, d) == [year |-> y, month |-> m, day |-> d]
NoDay == [year |-> 0, month |-> 0, day |-> 0]    \* argument null
NoPeriod == [year |-> 0, month |-> 0]            \* year = null, month = null

IsLeap(y) == (y % 4 = 0 /\ y % 100 # 0) \/ y % 400 = 0

DaysInMonth(y, m) ==
    CASE m \in {4, 6, 9, 11} -> 30
      [] m = 2 -> IF IsLeap(y) THEN 29 ELSE 28
      [] OTHER -> 31

\* ledger.js 347: currentDate.setMonth(currentDate.getMonth() + 1); a day
\* past the end of the target month runs over into the month after it
setMonthNext(date) ==
    LET n == NextMonth(date)
        len == DaysInMonth(n.year, n.month)
        nn == NextMonth(n)
    IN IF date.day <= len THEN Day(n.year, n.month, date.day)
       ELSE Day(nn.year, nn.month, date.day - len)

\* Date <= Date
dateLE(a, b) ==
    \/ a.year < b.year
    \/ a.year = b.year /\ a.month < b.month
    \/ a.year = b.year /\ a.month = b.month /\ a.day <= b.day

RECURSIVE monthsVisited(_, _)
\* ledger.js 305-348: the (year, month) of each pass of the while loop
monthsVisited(currentDate, end) ==
    IF dateLE(currentDate, end)
    THEN <<[year |-> currentDate.year, month |-> getMonth(currentDate) + 1]>>
         \o monthsVisited(setMonthNext(currentDate), end)
    ELSE <<>>

RECURSIVE SumInts(_)
SumInts(seq) == IF seq = <<>> THEN 0 ELSE Head(seq) + SumInts(Tail(seq))

RECURSIVE SumCodes(_, _)
\* sum of f[c] over the accounts c of a set
SumCodes(codes, f) ==
    IF codes = {} THEN 0
    ELSE LET c == CHOOSE x \in codes : TRUE IN f[c] + SumCodes(codes \ {c}, f)

RECURSIVE SortedCodes(_)
\* Object.entries of the chart: integer-like keys in ascending order
SortedCodes(codes) ==
    IF codes = {} THEN <<>>
    ELSE LET c == CHOOSE x \in codes : \A y \in codes : x <= y
         IN <<c>> \o SortedCodes(codes \ {c})

\* a read that leaves a mark in the hash it reads
readCmd_Touch(key) == Cmd("hSet", key, "last_read", 0, Null)

\* redis.hGetAll(ledgerKey)
readCmd(key) == Cmd("hGetAll", key, Null, 0, Null)

\* a read that adds up the account's buckets of every period
balanceOf_AnyPeriod(L, userId, code, date) ==
    LET keys == {k \in DOMAIN L : k[1] = userId /\ k[2] = code}
    IN SumCodes(keys, [k \in keys |-> L[k].balance])

\* parseFloat(ledgerData.balance || 0)
balanceOf(L, userId, code, date) == hGetAll(L, ledgerKey(userId, code, date)).balance

(* getTrialBalance, ledger.js 151-198 *)
trialPeriod(period, clock) ==
    [year |-> IF period.year # 0 THEN period.year ELSE getFullYear(clock),
     month |-> IF period.month # 0 THEN period.month ELSE getMonth(clock) + 1]

getTrialBalanceCmds(userId, period, clock) ==
    LET codes == SortedCodes(DOMAIN chartOfAccounts) IN
    [i \in 1..Len(codes) |-> readCmd(ledgerKey(userId, codes[i], trialPeriod(period, clock)))]

\* ledger.js 164-169: the account gets a row
trialListed(bucket) ==
    /\ "balance" \in bucket.fields
    /\ (bucket.balance # 0 \/ bucket.total_debits # 0 \/ bucket.total_credits # 0)

\* ledger.js 174
debit_balance(code, balance) ==
    IF balance > 0 /\ chartOfAccounts[code].type \in {"asset", "expense"} THEN balance ELSE 0

\* ledger.js 175
credit_balance(code, balance) ==
    IF balance > 0 /\ chartOfAccounts[code].type \in {"liability", "equity", "revenue"}
    THEN balance ELSE 0

\* ledger.js 192 and 270: Math.abs(a - b) < 0.01
withinTolerance(a, b) == Abs(a - b) < Tolerance

getTrialBalance(L, userId, period, clock) ==
    LET target == trialPeriod(period, clock)
        bucket(code) == hGetAll(L, ledgerKey(userId, code, target))
        listed == {code \in DOMAIN chartOfAccounts : trialListed(bucket(code))}
        debit == [code \in listed |-> debit_balance(code, bucket(code).balance)]
        credit == [code \in listed |-> credit_balance(code, bucket(code).balance)]
        totalDebits == SumCodes(listed, debit)
        totalCredits == SumCodes(listed, credit)
    IN [period |-> target,
        accounts |-> listed,
        debit_balance |-> debit,
        credit_balance |-> credit,
        total_debits |-> totalDebits,
        total_credits |-> totalCredits,
        is_balanced |-> withinTolerance(totalDebits, totalCredits)]

(* generateIncomeStatement, ledger.js 287-362 *)
IncomeCodes == {code \in DOMAIN chartOfAccounts :
                   chartOfAccounts[code].type \in {"revenue", "expense"}}

\* ledger.js 324-343: the section an account's item is added to
incomeSection(code) ==
    LET info == chartOfAccounts[code] IN
    IF info.type = "revenue"
    THEN (IF info.category = "operating" THEN "revenue" ELSE "other_income")
    ELSE (IF info.category = "cogs" THEN "cogs"
          ELSE IF info.category = "operating" THEN "operating_expenses"
          ELSE "other_expenses")

\* ledger.js 317-321: the amount of the item, 0 when no item is added
itemAmount(balance) == IF balance # 0 THEN Abs(balance) ELSE 0

sectionTotal(L, userId, months, section) ==
    LET codes == {code \in IncomeCodes : incomeSection(code) = section} IN
    SumInts([i \in 1..Len(months) |->
                SumCodes(codes, [code \in codes |->
                                    itemAmount(balanceOf(L, userId, code, months[i]))])])

\* the statement computed over a given sequence of months
incomeStatementOver(L, userId, months) ==
    LET revenue == sectionTotal(L, userId, months, "revenue")
        cogs == sectionTotal(L, userId, months, "cogs")
        operating_expenses == sectionTotal(L, userId, months, "operating_expenses")
        other_income == sectionTotal(L, userId, months, "other_income")
        other_expenses == sectionTotal(L, userId, months, "other_expenses")
        gross_profit == revenue - cogs
        operating_income == gross_profit - operating_expenses
    IN [months |-> months,
        revenue |-> revenue,
        cogs |-> cogs,
        gross_profit |-> gross_profit,
        operating_expenses |-> operating_expenses,
        operating_income |-> operating_income,
        other_income |-> other_income,
        other_expenses |-> other_expenses,
        net_income |-> operating_income + other_income - other_expenses]

generateIncomeStatement(L, userId, start, end) ==
    incomeStatementOver(L, userId, monthsVisited(start, end))

generateIncomeStatementCmds(userId, start, end) ==
    LET months == monthsVisited(start, end)
        codes == SortedCodes(IncomeCodes)
    IN Flatten([i \in 1..Len(months) |->
                   [j \in 1..Len(codes) |-> readCmd(ledgerKey(userId, codes[j], months[i]))]])

(* generateBalanceSheet, ledger.js 200-285 *)
SheetCodes == {code \in DOMAIN chartOfAccounts :
                  chartOfAccounts[code].type \in {"asset", "liability", "equity"}}

\* ledger.js 202
sheetDate(asOfDate, clock) == IF asOfDate # NoDay THEN asOfDate ELSE clock

\* ledger.js 217-225: months 1..month of the year of the date
cumulativeBalance(L, userId, code, date) ==
    SumInts([m \in 1..(getMonth(date) + 1) |->
                balanceOf(L, userId, code, [year |-> getFullYear(date), month |-> m])])

\* ledger.js 227-231: the balance of the item, 0 when the account is left out
sheetItem(cumulative) == IF Abs(cumulative) > Tolerance THEN Abs(cumulative) ELSE 0

\* ledger.js 256-257
startOfYear(clock) == Day(getFullYear(clock), 1, 1)

generateBalanceSheet(L, userId, asOfDate, clock) ==
    LET date == sheetDate(asOfDate, clock)
        item == [code \in SheetCodes |-> sheetItem(cumulativeBalance(L, userId, code, date))]
        ofType(t) == {code \in SheetCodes : chartOfAccounts[code].type = t}
        assets == SumCodes(ofType("asset"), item)
        liabilities == SumCodes(ofType("liability"), item)
        equityAccounts == SumCodes(ofType("equity"), item)
        incomeStatement == generateIncomeStatement(L, userId, startOfYear(clock), date)
        earnings == sheetItem(incomeStatement.net_income)
        equity == equityAccounts + earnings
    IN [date |-> date,
        balance |-> item,
        assets_total |-> assets,
        liabilities_total |-> liabilities,
        equity_accounts |-> equityAccounts,
        current_year_earnings |-> earnings,
        equity_total |-> equity,
        net_income |-> incomeStatement.net_income,
        total_liabilities_equity |-> liabilities + equity,
        is_balanced |-> withinTolerance(assets, liabilities + equity)]

generateBalanceSheetCmds(userId, asOfDate, clock) ==
    LET date == sheetDate(asOfDate, clock)
        codes == SortedCodes(SheetCodes)
    IN Flatten([i \in 1..Len(codes) |->
                   [m \in 1..(getMonth(date) + 1) |->
                       readCmd(ledgerKey(userId, codes[i],
                                         [year |-> getFullYear(date), month |-> m]))]])
       \o generateIncomeStatementCmds(userId, startOfYear(clock), date)

(* getAccountBalance, ledger.js 492-506 *)
getAccountBalance(L, userId, accountCode, asOfDate) == balanceOf(L, userId, accountCode, asOfDate)

getAccountBalanceCmds(userId, accountCode, asOfDate) ==
    <<readCmd(ledgerKey(userId, accountCode, asOfDate))>>

(* generateCashflowStatement, ledger.js 364-490 *)
workingCapitalAccounts == <<1200, 1300, 1400, 2000, 2100>>
investingAccounts == <<1500, 1700, 1800>>
financingAccounts == <<2500, 3000>>

\* ledger.js 416-418: ending balance minus beginning balance of one account
periodChange(L, userId, code, start, end) ==
    getAccountBalance(L, userId, code, end) - getAccountBalance(L, userId, code, start)

\* ledger.js 420: only a change above 0.01 enters the statement
significantChange(L, userId, code, start, end) ==
    LET change == periodChange(L, userId, code, start, end) IN
    IF accountInfoType(code) # "undefined" /\ Abs(change) > Tolerance THEN change ELSE 0

\* ledger.js 421-426
workingCapitalEffect(L, userId, code, start, end) ==
    LET change == significantChange(L, userId, code, start, end) IN
    IF accountInfoType(code) = "asset" THEN -change ELSE change

\* ledger.js 390-407: depreciation added back, month by month
depreciationAddBack(L, userId, start, end) ==
    LET months == monthsVisited(start, end) IN
    SumInts([i \in 1..Len(months) |->
                LET depreciation == balanceOf(L, userId, 5600, months[i]) IN
                IF depreciation > 0 THEN depreciation ELSE 0])

generateCashflowStatement(L, userId, start, end) ==
    LET incomeStatement == generateIncomeStatement(L, userId, start, end)
        operating ==
            incomeStatement.net_income
            + depreciationAddBack(L, userId, start, end)
            + SumInts([i \in 1..Len(workingCapitalAccounts) |->
                          workingCapitalEffect(L, userId, workingCapitalAccounts[i], start, end)])
        investing ==
            -SumInts([i \in 1..Len(investingAccounts) |->
                         significantChange(L, userId, investingAccounts[i], start, end)])
        financing ==
            SumInts([i \in 1..Len(financingAccounts) |->
                        significantChange(L, userId, financingAccounts[i], start, end)])
        net_change_in_cash == operating + investing + financing
        beginning_cash == getAccountBalance(L, userId, 1000, start)
                          + getAccountBalance(L, userId, 1100, start)
    IN [working_capital |->
            [code \in {workingCapitalAccounts[i] : i \in 1..Len(workingCapitalAccounts)} |->
                workingCapitalEffect(L, userId, code, start, end)],
        net_income |-> incomeStatement.net_income,
        operating_total |-> operating,
        investing_total |-> investing,
        financing_total |-> financing,
        net_change_in_cash |-> net_change_in_cash,
        beginning_cash |-> beginning_cash,
        ending_cash |-> beginning_cash + net_change_in_cash]

\* the two reads of getAccountBalance(start), getAccountBalance(end)
changeCmds(userId, codes, start, end) ==
    Flatten([i \in 1..Len(codes) |->
                IF accountInfoType(codes[i]) = "undefined" THEN <<>>
                ELSE getAccountBalanceCmds(userId, codes[i], start)
                     \o getAccountBalanceCmds(userId, codes[i], end)])

generateCashflowStatementCmds(userId, start, end) ==
    LET months == monthsVisited(start, end) IN
       generateIncomeStatementCmds(userId, start, end)
    \o [i \in 1..Len(months) |-> readCmd(ledgerKey(userId, 5600, months[i]))]
    \o changeCmds(userId, workingCapitalAccounts, start, end)
    \o changeCmds(userId, investingAccounts, start, end)
    \o changeCmds(userId, financingAccounts, start, end)
    \o getAccountBalanceCmds(userId, 1000, start)
    \o getAccountBalanceCmds(userId, 1100, start)

(***************************************************************************)
(* Statements over a posted ledger: entries of a small catalogue are       *)
(* posted with explicit dates, and each generator is called on the result. *)
(***************************************************************************)
StmtUser == "u1"
\* a posting is dated on the 20th of its month
StmtDates == {Day(d.year, d.month, 20) : d \in MonthsFrom(FirstMonth, MaxMonths + 1)}
StmtNow == Day(2025, 2, 15)
StmtAmounts == {Tolerance + a : a \in 1..MaxAmount}

TwoLines(debitCode, debit, creditCode, credit) ==
    <<[account_code |-> debitCode, debit |-> debit, credit |-> 0],
      [account_code |-> creditCode, debit |-> 0, credit |-> credit]>>

\* a sale, a rent payment, a transfer between cash accounts, a refund of a
\* sale, a loan drawn, a sale on credit, and an entry that is off by the
\* validator's tolerance
StmtLines ==
    UNION {{TwoLines(1100, a, 4000, a),
            TwoLines(5100, a, 1100, a),
            TwoLines(1000, a, 1100, a),
            TwoLines(4000, a, 1100, a),
            TwoLines(1100, a, 2200, a),
            TwoLines(1200, a, 4000, a)} : a \in StmtAmounts}
    \cup {TwoLines(1100, Tolerance, 4000, 0)}
StmtEntries == [description : {"d"}, date : StmtDates, lines : StmtLines]

TrialPeriods == {NoPeriod} \cup {[year |-> 2024, month |-> 12], [year |-> 2025, month |-> 1]}
AsOfDates == {NoDay, Day(2024, 12, 31), Day(2025, 1, 31)}
StmtRanges == {<<Day(2024, 12, 1), Day(2025, 2, 28)>>,
               <<Day(2025, 1, 1), Day(2025, 1, 31)>>,
               <<Day(2025, 1, 15), Day(2025, 2, 10)>>,
               <<Day(2025, 1, 31), Day(2025, 2, 28)>>,
               <<Day(2025, 1, 15), Day(2025, 1, 15)>>}
BalanceCodes == {1100}
BalanceDates == {Day(2025, 1, 31), Day(2025, 2, 28)}

InitStmt ==
    /\ ledger = <<>>
    /\ journal = [id \in JournalIds |-> NoJournal]
    /\ userJournals = [u \in Users |-> <<>>]
    /\ journal_entries = <<>>
    /\ nextId = 0
    /\ liability = [id \in LiabilityIds |-> NoLiability]
    /\ userLiabilities = [u \in Users |-> <<>>]
    /\ userState = [u \in Users |-> NoState]
    /\ edits = 0
    /\ steps = 0
    /\ now = StmtNow
    /\ ret = Answer("init", "ok", NoJournal, NoJournal)
    /\ call = NoCall
    /\ procs = NoProcs
    /\ observed = NoRead
    /\ report = NoReport
    /\ InitOther

stmtVars == <<nextId, liability, userLiabilities, userState, edits, steps, now, ret,
              call, procs, observed, otherVars>>

\* LedgerService.createJournalEntry(userId, entryData) with an explicit date
StmtPost(entryData) ==
    /\ nextId < MaxJournals
    /\ LET r == createJournalEntry(Store, nextId + 1, StmtUser, entryData, now) IN
        /\ SetStore(r.store)
        /\ ret' = Answer("createJournalEntry", r.result, r.journalEntry, NoJournal)
        /\ call' = [phase |-> "posted", userId |-> StmtUser, entryData |-> entryData,
                    before |-> Store, posted |-> r.store]
    /\ nextId' = nextId + 1
    /\ report' = NoReport
    /\ UNCHANGED <<liability, userLiabilities, userState, edits, steps, now, procs, observed,
                   otherVars>>

\* LedgerService.getTrialBalance(userId, year, month)
StmtTrialBalance(period) ==
    /\ SetStore(ExecList(Store, getTrialBalanceCmds(StmtUser, period, now)))
    /\ report' = [kind |-> "trial_balance", userId |-> StmtUser, period |-> period,
                  result |-> getTrialBalance(ledger, StmtUser, period, now)]
    /\ UNCHANGED stmtVars

\* LedgerService.generateBalanceSheet(userId, asOfDate)
StmtBalanceSheet(asOfDate) ==
    /\ SetStore(ExecList(Store, generateBalanceSheetCmds(StmtUser, asOfDate, now)))
    /\ report' = [kind |-> "balance_sheet", userId |-> StmtUser, asOfDate |-> asOfDate,
                  result |-> generateBalanceSheet(ledger, StmtUser, asOfDate, now)]
    /\ UNCHANGED stmtVars

\* LedgerService.generateIncomeStatement(userId, startDate, endDate)
StmtIncomeStatement(range) ==
    /\ SetStore(ExecList(Store, generateIncomeStatementCmds(StmtUser, range[1], range[2])))
    /\ report' = [kind |-> "income_statement", userId |-> StmtUser,
                  start |-> range[1], end |-> range[2],
                  result |-> generateIncomeStatement(ledger, StmtUser, range[1], range[2])]
    /\ UNCHANGED stmtVars

\* LedgerService.generateCashflowStatement(userId, startDate, endDate)
StmtCashflow(range) ==
    /\ SetStore(ExecList(Store, generateCashflowStatementCmds(StmtUser, range[1], range[2])))
    /\ report' = [kind |-> "cashflow", userId |-> StmtUser,
                  start |-> range[1], end |-> range[2],
                  result |-> generateCashflowStatement(ledger, StmtUser, range[1], range[2])]
    /\ UNCHANGED stmtVars

\* LedgerService.getAccountBalance(userId, accountCode, asOfDate)
StmtAccountBalance(accountCode, asOfDate) ==
    /\ SetStore(ExecList(Store, getAccountBalanceCmds(StmtUser, accountCode, asOfDate)))
    /\ report' = [kind |-> "account_balance", userId |-> StmtUser,
                  accountCode |-> accountCode, asOfDate |-> asOfDate,
                  result |-> getAccountBalance(ledger, StmtUser, accountCode, asOfDate)]
    /\ UNCHANGED stmtVars

NextStmt ==
    \/ \E e \in StmtEntries : StmtPost(e)
    \/ \E p \in TrialPeriods : StmtTrialBalance(p)
    \/ \E d \in AsOfDates : StmtBalanceSheet(d)
    \/ \E r \in StmtRanges : StmtIncomeStatement(r)
    \/ \E r \in StmtRanges : StmtCashflow(r)
    \/ \E c \in BalanceCodes, d \in BalanceDates : StmtAccountBalance(c, d)

StmtSpec == InitStmt /\ [][NextStmt]_vars

(***************************************************************************)
(* The generators called on a ledger of few entries: a transfer between    *)
(* cash accounts and a sale, each dated in one of two months.              *)
(***************************************************************************)
GenAmount == Tolerance + MaxAmount
GenEntries ==
    [description : {"d"},
     date : {FirstMonth, NextMonth(FirstMonth)},
     lines : {TwoLines(1000, GenAmount, 1100, GenAmount),
              TwoLines(1100, GenAmount, 4000, GenAmount)}]

NextGen ==
    \/ \E e \in GenEntries : StmtPost(e)
    \/ \E p \in TrialPeriods : StmtTrialBalance(p)
    \/ \E d \in AsOfDates : StmtBalanceSheet(d)
    \/ \E r \in StmtRanges : StmtIncomeStatement(r)
    \/ \E r \in StmtRanges : StmtCashflow(r)
    \/ \E c \in BalanceCodes, d \in BalanceDates : StmtAccountBalance(c, d)

GenSpec == InitStmt /\ [][NextGen]_vars

(***************************************************************************)
(* RedisService: transactions and business metrics (src/services/redis.js) *)
(* and RecurringService (src/services/recurring.js).  A date is the        *)
(* calendar month of the instant; an instant of the current month is not   *)
(* later than the clock.                                                   *)
(***************************************************************************)
Other == [transaction |-> transaction, userTransactions |-> userTransactions,
          metrics |-> metrics, recurring |-> recurring,
          active_recurring |-> active_recurring, events |-> events]

SetOther(O) ==
    /\ transaction' = O.transaction
    /\ userTransactions' = O.userTransactions
    /\ metrics' = O.metrics
    /\ recurring' = O.recurring
    /\ active_recurring' = O.active_recurring
    /\ events' = O.events

monthLE(a, b) == a.year < b.year \/ (a.year = b.year /\ a.month <= b.month)

EmptyMetrics == [total_revenue |-> 0, total_expenses |-> 0, transaction_count |-> 0]

\* redis.js 285, 520: the key carries the month and no year
metricsKey(userId, date) == <<userId, getMonth(date) + 1>>

metricsOf(M, key) == IF key \in DOMAIN M THEN M[key] ELSE EmptyMetrics

\* redis HINCRBYFLOAT / HINCRBY on a metrics hash
metricsIncr(M, key, field, delta) ==
    LET new == [metricsOf(M, key) EXCEPT ![field] = @ + delta]
    IN [k \in DOMAIN M \cup {key} |-> IF k = key THEN new ELSE M[k]]

metricsField(txn) ==
    IF txn.type = "income" THEN "total_revenue" ELSE "total_expenses"

\* redis.js 514-534
updateBusinessMetrics(M, userId, txn) ==
    LET key == metricsKey(userId, txn.date) IN
    metricsIncr(metricsIncr(M, key, metricsField(txn), txn.amount_myr),
                key, "transaction_count", 1)

\* redis.js 282-297
reverseBusinessMetrics(M, userId, txn) ==
    LET key == metricsKey(userId, txn.date) IN
    metricsIncr(metricsIncr(M, key, metricsField(txn), -txn.amount_myr),
                key, "transaction_count", -1)

\* redis.js 151, 260: not a future transaction, or one whose date has come
isCurrent(txn, clock) == ~txn.is_future \/ monthLE(txn.date, clock)

\* redis.js 113-159: the store after the call and the transaction returned
createTransaction(O, txnId, userId, transactionData, clock) ==
    LET txn == [id |-> txnId,
                user_id |-> userId,
                date |-> IF transactionData.date # NoDate THEN transactionData.date
                         ELSE clock,
                amount_myr |-> transactionData.amount,
                type |-> transactionData.type,
                category |-> transactionData.category,
                description |-> transactionData.description,
                is_future |-> transactionData.is_future]
        stored == [O EXCEPT !.transaction[txnId] = txn,
                            !.userTransactions[userId] = <<txnId>> \o @,
                            !.events = Append(@, [stream |-> "transactions",
                                                  user_id |-> userId, id |-> txnId])]
    IN [store |-> IF isCurrent(txn, clock)
                  THEN [stored EXCEPT !.metrics = updateBusinessMetrics(@, userId, txn)]
                  ELSE stored,
        transaction |-> txn]

\* redis.js 242-280: the store after the call and what the call returned
deleteTransaction(O, userId, transactionId, clock) ==
    LET txn == O.transaction[transactionId] IN
    IF txn = NoTransaction \/ txn.user_id # userId
    THEN [store |-> O, success |-> FALSE, transaction |-> NoTransaction]
    ELSE LET removed == [O EXCEPT !.transaction[transactionId] = NoTransaction,
                                  !.userTransactions[userId] = lRemFirst(@, transactionId)]
             reversed == IF isCurrent(txn, clock)
                         THEN [removed EXCEPT
                                  !.metrics = reverseBusinessMetrics(@, userId, txn)]
                         ELSE removed
         IN [store |-> [reversed EXCEPT
                           !.events = Append(@, [stream |-> "transaction_deletions",
                                                 user_id |-> userId, id |-> transactionId])],
             success |-> TRUE, transaction |-> txn]

RECURSIVE InsertByDate(_, _)
InsertByDate(sorted, t) ==
    IF sorted = <<>> THEN <<t>>
    ELSE IF monthLE(Head(sorted).date, t.date) THEN <<t>> \o sorted
    ELSE <<Head(sorted)>> \o InsertByDate(Tail(sorted), t)

RECURSIVE SortByDate(_, _)
SortByDate(T, ids) ==
    IF ids = {} THEN <<>>
    ELSE LET id == CHOOSE i \in ids : \A k \in ids : i >= k
         IN InsertByDate(SortByDate(T, ids \ {id}), T[id])

\* redis.js 330-354: every stored transaction of the user, newest first
findAllUserTransactions(T, userId) ==
    SortByDate(T, {id \in DOMAIN T : T[id] # NoTransaction /\ T[id].user_id = userId})

\* ledger.js 522-524
revenueAccount(category) ==
    CASE category = "rental" -> 4200
      [] category = "commission" -> 4100
      [] OTHER -> 4000

\* ledger.js 534-538
expenseAccount(category) ==
    CASE category = "rent" -> 5100
      [] category = "utilities" -> 5200
      [] category = "marketing" -> 5300
      [] category = "inventory" -> 5000
      [] OTHER -> 5400

\* ledger.js 511-555: the two lines of the entry of a transaction
transactionLines(txn) ==
    IF txn.type = "income"
    THEN <<[account_code |-> 1100, debit |-> txn.amount_myr, credit |-> 0],
           [account_code |-> revenueAccount(txn.category),
            debit |-> 0, credit |-> txn.amount_myr]>>
    ELSE <<[account_code |-> expenseAccount(txn.category),
            debit |-> txn.amount_myr, credit |-> 0],
           [account_code |-> 1100, debit |-> 0, credit |-> txn.amount_myr]>>

\* ledger.js 509-568; the reference TXN-<id> is the id of the transaction
convertTransactionToJournalEntry(S, journalId, userId, txn, clock) ==
    createJournalEntry(S, journalId, userId,
                       [description |-> txn.description, reference |-> txn.id,
                        date |-> txn.date, lines |-> transactionLines(txn)],
                       clock)

\* recurring.js 212-233 on calendar months
calculateNextDue(currentDate, frequency) ==
    CASE frequency = "yearly" -> [currentDate EXCEPT !.year = @ + 1]
      [] OTHER -> NextMonth(currentDate)

\* recurring.js 8-52
createRecurringTransaction(O, recurringId, userId, recurringData, clock) ==
    LET item == [id |-> recurringId,
                 user_id |-> userId,
                 amount_myr |-> recurringData.amount,
                 type |-> recurringData.type,
                 category |-> recurringData.category,
                 description |-> recurringData.description,
                 frequency |-> recurringData.frequency,
                 start_date |-> clock,
                 end_date |-> recurringData.end_date,
                 next_due |-> IF recurringData.next_due # NoDate
                              THEN recurringData.next_due
                              ELSE calculateNextDue(clock, recurringData.frequency),
                 is_active |-> TRUE,
                 execution_count |-> 0,
                 last_executed |-> NoDate]
    IN [store |-> [O EXCEPT !.recurring[recurringId] = item,
                            !.active_recurring = @ \cup {recurringId},
                            !.events = Append(@, [stream |-> "recurring_created",
                                                  user_id |-> userId, id |-> recurringId])],
        recurring |-> item]

\* recurring.js 169-210: one occurrence of a recurring item is executed
executeRecurring(O, txnId, item, clock) ==
    LET created == createTransaction(O, txnId, item.user_id,
                                     [amount |-> item.amount_myr, type |-> item.type,
                                      category |-> item.category,
                                      description |-> item.description,
                                      date |-> NoDate, is_future |-> FALSE],
                                     clock)
        nextDue == calculateNextDue(item.next_due, item.frequency)
        ended == item.end_date # NoDate /\ ~monthLE(nextDue, item.end_date)
        advanced == [item EXCEPT !.next_due = nextDue,
                                 !.last_executed = clock,
                                 !.execution_count = @ + 1,
                                 !.is_active = IF ended THEN FALSE ELSE @]
    IN [created.store EXCEPT
           !.recurring[item.id] = advanced,
           !.active_recurring = IF ended THEN @ \ {item.id} ELSE @,
           !.events = Append(@, [stream |-> "recurring_executed",
                                 user_id |-> item.user_id, id |-> item.id])]

\* recurring.js 137-150: is the item executed by this run
isDue(R, id, clock) ==
    /\ R[id] # NoRecurring
    /\ R[id].is_active
    /\ monthLE(R[id].next_due, clock)

RECURSIVE processDueRecurringOver(_, _, _, _)
\* recurring.js 128-165: the members of active_recurring, one after the other
processDueRecurringOver(O, ids, uuid, clock) ==
    IF ids = {} THEN [store |-> O, uuid |-> uuid]
    ELSE LET id == CHOOSE i \in ids : \A k \in ids : i <= k
             item == O.recurring[id]
         IN IF item = NoRecurring \/ ~item.is_active
            THEN processDueRecurringOver([O EXCEPT !.active_recurring = @ \ {id}],
                                         ids \ {id}, uuid, clock)
            ELSE IF monthLE(item.next_due, clock)
            THEN processDueRecurringOver(executeRecurring(O, uuid + 1, item, clock),
                                         ids \ {id}, uuid + 1, clock)
            ELSE processDueRecurringOver(O, ids \ {id}, uuid, clock)

processDueRecurring(O, uuid, clock) ==
    processDueRecurringOver(O, O.active_recurring, uuid, clock)

(***************************************************************************)
(* The transactions of the bot: a plain message records a transaction and  *)
(* its journal entry, a message with a frequency sets up a recurring item, *)
(* the processor executes what is due, /delete removes a transaction.      *)
(***************************************************************************)
TxnAmounts == 1..MaxAmount
ParsedTransactions ==
    [amount : TxnAmounts, type : {"income", "expense"}, category : {"rent"},
     description : {"d1"}, date : {NoDate}, is_future : {FALSE}]
ParsedRecurring ==
    [amount : TxnAmounts, type : {"expense"}, category : {"rent"},
     description : {"d1"}, frequency : {"monthly"}, next_due : {NoDate, FirstMonth},
     end_date : {NoDate, FirstMonth}]

InitTxn ==
    /\ ledger = <<>>
    /\ journal = [id \in Uuids |-> NoJournal]
    /\ userJournals = [u \in Users |-> <<>>]
    /\ journal_entries = <<>>
    /\ nextId = 0
    /\ liability = [id \in LiabilityIds |-> NoLiability]
    /\ userLiabilities = [u \in Users |-> <<>>]
    /\ userState = [u \in Users |-> NoState]
    /\ edits = 0
    /\ steps = 0
    /\ now = FirstMonth
    /\ ret = Answer("init", "ok", NoJournal, NoJournal)
    /\ call = NoCall
    /\ procs = NoProcs
    /\ observed = NoRead
    /\ report = NoReport
    /\ InitOther

\* bot.js 1417-1432, 1523-1548: a plain message that parses as a transaction
TxnMessage(userId, parsedTransaction) ==
    /\ userState[userId].state = "none"
    /\ nextId + 2 \in Uuids
    /\ LET created == createTransaction(Other, nextId + 1, userId, parsedTransaction, now)
           r == convertTransactionToJournalEntry(Store, nextId + 2, userId,
                                                 created.transaction, now)
       IN /\ SetOther(created.store)
          /\ SetStore(r.store)
          /\ ret' = Answer("transaction", r.result, r.journalEntry, NoJournal)
          /\ call' = [phase |-> "created", transaction |-> created.transaction,
                      before |-> Store]
    /\ nextId' = nextId + 2
    /\ UNCHANGED <<liability, userLiabilities, userState, edits, steps, now, procs,
                   observed, report, ai_cache, cache_hits, ai_context, expires,
                   asset, userAssets>>

\* bot.js 1438-1462: a plain message that names a frequency
TxnRecurringMessage(userId, parsedRecurring) ==
    /\ userState[userId].state = "none"
    /\ nextId + 1 \in Uuids
    /\ SetOther(createRecurringTransaction(Other, nextId + 1, userId,
                                           parsedRecurring, now).store)
    /\ nextId' = nextId + 1
    /\ ret' = Answer("recurring", "ok", NoJournal, NoJournal)
    /\ call' = NoCall
    /\ UNCHANGED <<storeVars, liability, userLiabilities, userState, edits, steps, now,
                   procs, observed, report, ai_cache, cache_hits, ai_context, expires,
                   asset, userAssets>>

\* bot.js 2040-2051: the processor started every 60 seconds
TxnProcessDue ==
    /\ \E id \in active_recurring : isDue(recurring, id, now)
    /\ LET r == processDueRecurring(Other, nextId, now) IN
        /\ r.uuid \in Uuids
        /\ SetOther(r.store)
        /\ nextId' = r.uuid
        /\ call' = [phase |-> "executed", transaction |-> r.store.transaction[r.uuid],
                    before |-> Store]
    /\ ret' = Answer("processDueRecurring", "ok", NoJournal, NoJournal)
    /\ UNCHANGED <<storeVars, liability, userLiabilities, userState, edits, steps, now,
                   procs, observed, report, ai_cache, cache_hits, ai_context, expires,
                   asset, userAssets>>

\* bot.js 910-935
TxnDelete(userId) ==
    /\ LET transactions == findAllUserTransactions(transaction, userId) IN
        /\ transactions # <<>>
        /\ SetState(userId, [NoState EXCEPT !.state = "awaiting_delete_number",
                                            !.transactions = Take(transactions, ListLimit)])
    /\ ret' = Answer("/delete", "prompt", NoJournal, NoJournal)
    /\ call' = NoCall
    /\ UNCHANGED <<storeVars, otherVars, nextId, liability, userLiabilities, edits, steps,
                   now, procs, observed, report>>

\* bot.js 1578-1596
TxnDeleteNumber(userId, number) ==
    /\ userState[userId].state = "awaiting_delete_number"
    /\ LET transactions == userState[userId].transactions IN
       IF number >= 1 /\ number <= Len(transactions)
       THEN LET r == deleteTransaction(Other, userId, transactions[number].id, now) IN
            /\ SetOther(r.store)
            /\ ret' = Answer("delete", IF r.success THEN "deleted" ELSE "failed",
                             NoJournal, NoJournal)
            /\ call' = [phase |-> IF r.success THEN "deleted" ELSE "failed",
                        transaction |-> r.transaction, before |-> Store]
       ELSE /\ UNCHANGED <<transaction, userTransactions, metrics, recurring,
                           active_recurring, events>>
            /\ ret' = Answer("delete", "invalid", NoJournal, NoJournal)
            /\ call' = NoCall
    /\ SetState(userId, NoState)
    /\ UNCHANGED <<storeVars, nextId, liability, userLiabilities, edits, steps, now,
                   procs, observed, report, ai_cache, cache_hits, ai_context, expires,
                   asset, userAssets>>

TxnTick ==
    /\ Tick
    /\ call' = NoCall
    /\ UNCHANGED <<procs, observed, report, otherVars>>

NextTxn ==
    \/ \E u \in Users, p \in ParsedTransactions : TxnMessage(u, p)
    \/ \E u \in Users, p \in ParsedRecurring : TxnRecurringMessage(u, p)
    \/ TxnProcessDue
    \/ \E u \in Users : TxnDelete(u)
    \/ \E u \in Users, n \in Numbers : TxnDeleteNumber(u, n)
    \/ TxnTick

TxnSpec == InitTxn /\ [][NextTxn]_vars

(***************************************************************************)
(* The delete confirmation handled by concurrent handlers (bot.js          *)
(* 1417-1432, 1821-1847): each text message starts a handler that reads    *)
(* the user state and then issues its commands, one await after the other. *)
(***************************************************************************)
IdleHandler ==
    [kind |-> "confirm", entryData |-> SeedEntry, cmds |-> <<>>, pc |-> 1,
     status |-> "idle", attempts |-> 0, applied |-> 0, result |-> "none",
     journalToDelete |-> NoJournal]

ConfirmNumbers == 1..2

InitConfirm ==
    /\ ledger = ConcBase.ledger
    /\ journal = ConcBase.journal
    /\ userJournals = ConcBase.userJournals
    /\ journal_entries = ConcBase.journal_entries
    /\ nextId = 1
    /\ liability = [id \in LiabilityIds |-> NoLiability]
    /\ userLiabilities = [u \in Users |-> <<>>]
    /\ userState = [u \in Users |-> NoState]
    /\ edits = 0
    /\ steps = 0
    /\ now = FirstMonth
    /\ ret = Answer("init", "ok", NoJournal, NoJournal)
    /\ call = NoCall
    /\ procs = [p \in ProcIds |-> IdleHandler]
    /\ observed = NoRead
    /\ report = NoReport
    /\ InitOther

\* bot.js 427-486: /journal_delete lists the entries and stores the list
ConfirmCommand ==
    /\ MsgJournalDelete(ConcUser)
    /\ UNCHANGED <<steps, call, procs, observed, report, otherVars>>

\* bot.js 1417-1432, 1821-1826: a text message arrives, its handler reads the
\* user state and picks the entry out of the stored list
ConfirmRead(p, number) ==
    /\ procs[p].status = "idle"
    /\ LET st == userState[ConcUser]
           valid == number >= 1 /\ number <= Len(st.journals)
       IN procs' = [procs EXCEPT ![p] =
            IF st.state # "awaiting_journal_delete_number"
            THEN [@ EXCEPT !.status = "done", !.result = "no_delete_state"]
            ELSE IF valid
            THEN [@ EXCEPT !.status = "running", !.result = "deleted",
                           !.journalToDelete = st.journals[number],
                           !.cmds = deleteJournalCmds(ConcUser, st.journals[number])]
            ELSE [@ EXCEPT !.status = "running", !.result = "invalid_number"]]
    /\ UNCHANGED <<storeVars, restVars, observed>>

\* bot.js 1829-1846: the next await of handler p; the last one is
\* RedisService.clearUserState
ConfirmStep(p) ==
    /\ procs[p].status = "running"
    /\ IF procs[p].pc <= Len(procs[p].cmds)
       THEN /\ SetStore(Exec(Store, procs[p].cmds[procs[p].pc]))
            /\ procs' = [procs EXCEPT ![p].pc = @ + 1]
            /\ UNCHANGED <<userState, ret>>
       ELSE /\ SetState(ConcUser, NoState)
            /\ procs' = [procs EXCEPT ![p].status = "done"]
            /\ ret' = Answer("journal_delete", procs[p].result, NoJournal,
                             procs[p].journalToDelete)
            /\ UNCHANGED storeVars
    /\ UNCHANGED <<nextId, liability, userLiabilities, edits, steps, now, call, report,
                   otherVars, observed>>

NextConfirm ==
    \/ ConfirmCommand
    \/ \E p \in ProcIds, n \in ConfirmNumbers : ConfirmRead(p, n)
    \/ \E p \in ProcIds : ConfirmStep(p)

ConfirmSpec == InitConfirm /\ [][NextConfirm]_vars

(***************************************************************************)
(* Two users on one store: each posts entries and deletes stored ones, and *)
(* the four statements are generated for either of them.                   *)
(***************************************************************************)
IsoEntries ==
    [description : {"d"},
     date : {FirstMonth},
     lines : {TwoLines(1100, GenAmount, 4000, GenAmount),
              TwoLines(5100, GenAmount, 1100, GenAmount)}]
IsoPeriod == FirstMonth
IsoAsOf == Day(2025, 1, 31)
IsoRange == <<Day(2024, 12, 1), Day(2025, 2, 28)>>

\* LedgerService.createJournalEntry(userId, entryData) for either user
IsoPost(userId, entryData) ==
    /\ nextId < MaxJournals
    /\ LET r == createJournalEntry(Store, nextId + 1, userId, entryData, now) IN
        /\ SetStore(r.store)
        /\ ret' = Answer("createJournalEntry", r.result, r.journalEntry, NoJournal)
        /\ call' = [phase |-> "posted", userId |-> userId, entryData |-> entryData,
                    before |-> Store, posted |-> r.store]
    /\ nextId' = nextId + 1
    /\ report' = NoReport
    /\ UNCHANGED <<liability, userLiabilities, userState, edits, steps, now, procs, observed,
                   otherVars>>

\* bot.js 1829-1834: a listed entry of the user is reversed and deleted
IsoDelete(userId, number) ==
    /\ number <= Len(validJournals(userId))
    /\ LET journalToDelete == validJournals(userId)[number] IN
        /\ SetStore(ExecAll(Store, deleteJournalCmds(userId, journalToDelete)))
        /\ ret' = Answer("journal_delete", "deleted", NoJournal, journalToDelete)
        /\ call' = [phase |-> "deleted", userId |-> userId, entryData |-> NoJournal,
                    before |-> Store, posted |-> Store]
    /\ report' = NoReport
    /\ UNCHANGED <<nextId, liability, userLiabilities, userState, edits, steps, now, procs,
                   observed, otherVars>>

\* the statement of one kind that the generators return on ledger L
statementOn(L, kind, userId, clock) ==
    CASE kind = "trial_balance" -> getTrialBalance(L, userId, IsoPeriod, clock)
      [] kind = "balance_sheet" -> generateBalanceSheet(L, userId, IsoAsOf, clock)
      [] kind = "income_statement" ->
            generateIncomeStatement(L, userId, IsoRange[1], IsoRange[2])
      [] kind = "cashflow" -> generateCashflowStatement(L, userId, IsoRange[1], IsoRange[2])

statementCmds(kind, userId, clock) ==
    CASE kind = "trial_balance" -> getTrialBalanceCmds(userId, IsoPeriod, clock)
      [] kind = "balance_sheet" -> generateBalanceSheetCmds(userId, IsoAsOf, clock)
      [] kind = "income_statement" ->
            generateIncomeStatementCmds(userId, IsoRange[1], IsoRange[2])
      [] kind = "cashflow" -> generateCashflowStatementCmds(userId, IsoRange[1], IsoRange[2])

IsoStatement(kind, userId) ==
    /\ SetStore(ExecList(Store, statementCmds(kind, userId, now)))
    /\ report' = [kind |-> kind, userId |-> userId,
                  result |-> statementOn(ledger, kind, userId, now)]
    /\ UNCHANGED stmtVars

IsoTrialBalance(userId) == IsoStatement("trial_balance", userId)
IsoBalanceSheet(userId) == IsoStatement("balance_sheet", userId)
IsoIncomeStatement(userId) == IsoStatement("income_statement", userId)
IsoCashflow(userId) == IsoStatement("cashflow", userId)

NextIso ==
    \/ \E u \in Users, e \in IsoEntries : IsoPost(u, e)
    \/ \E u \in Users, n \in 1..MaxJournals : IsoDelete(u, n)
    \/ \E u \in Users : IsoTrialBalance(u)
    \/ \E u \in Users : IsoBalanceSheet(u)
    \/ \E u \in Users : IsoIncomeStatement(u)
    \/ \E u \in Users : IsoCashflow(u)

IsoSpec == InitStmt /\ [][NextIso]_vars

(***************************************************************************)
(* The AI response cache (redis.js 703-729, ai.js 49-74).  A string is the *)
(* sequence of its characters; md5 is taken to be free of collisions, so   *)
(* the key is the hashed string itself.                                    *)
(***************************************************************************)
DigitChars == <<"0", "1", "2", "3", "4", "5", "6", "7", "8", "9">>

RECURSIVE toString(_)
\* Number.prototype.toString of a non-negative integer
toString(n) ==
    IF n < 10 THEN <<DigitChars[n + 1]>>
    ELSE toString(n \div 10) \o <<DigitChars[(n % 10) + 1]>>

\* redis.js 705-706, 722-723: md5(query + userId.toString())
cacheKey(query, userId) == query \o toString(userId)

\* redis.get of a missing key: null
NoResponse == [userId |-> 0, message |-> <<>>]

cachedAt(C, key) == IF key \in DOMAIN C THEN C[key] ELSE NoResponse

\* redis.js 720-729: SETEX of the response under the key
cacheAIResponse(C, query, userId, response) ==
    [k \in DOMAIN C \cup {cacheKey(query, userId)} |->
        IF k = cacheKey(query, userId) THEN response ELSE C[k]]

\* redis.js 703-718: the cached response, or null
getCachedAIResponse(C, query, userId) == cachedAt(C, cacheKey(query, userId))

\* ai.js 55-61: the answer generated from the context of the user
generateResponse(userId, message) == [userId |-> userId, message |-> message]

CacheChars == {"a", "1"}
CacheQueries == UNION {[1..n -> CacheChars] : n \in 1..MaxLines}

\* AIService.processQuery(userId, message)
CacheQuery(userId, message) ==
    /\ steps < MaxQueries
    /\ steps' = steps + 1
    /\ LET cached == getCachedAIResponse(ai_cache, message, userId) IN
       IF cached # NoResponse
       THEN /\ cache_hits' = [cache_hits EXCEPT ![userId] = @ + 1]
            /\ call' = [phase |-> "cached", userId |-> userId, message |-> message,
                        response |-> cached]
            /\ UNCHANGED <<ai_cache, ai_context>>
       ELSE LET response == generateResponse(userId, message) IN
            /\ ai_cache' = cacheAIResponse(ai_cache, message, userId, response)
            /\ ai_context' = [ai_context EXCEPT ![userId] =
                                 Take(<<[user_message |-> message,
                                         ai_response |-> response]>> \o @, ListLimit)]
            /\ call' = [phase |-> "generated", userId |-> userId, message |-> message,
                        response |-> response]
            /\ UNCHANGED cache_hits
    /\ ret' = Answer("processQuery", "ok", NoJournal, NoJournal)
    /\ UNCHANGED <<storeVars, nextId, liability, userLiabilities, userState, edits, now,
                   procs, observed, report, transaction, userTransactions, metrics,
                   recurring, active_recurring, events, expires,
                   asset, userAssets>>

\* redis.js 725: a cached response expires after one hour
CacheExpire(key) ==
    /\ key \in DOMAIN ai_cache
    /\ ai_cache' = [k \in DOMAIN ai_cache \ {key} |-> ai_cache[k]]
    /\ call' = NoCall
    /\ ret' = Answer("expire", "ok", NoJournal, NoJournal)
    /\ UNCHANGED <<storeVars, nextId, liability, userLiabilities, userState, edits, steps,
                   now, procs, observed, report, transaction, userTransactions, metrics,
                   recurring, active_recurring, events, cache_hits, ai_context, expires,
                   asset, userAssets>>

NextCache ==
    \/ \E u \in TelegramIds, q \in CacheQueries : CacheQuery(u, q)
    \/ \E k \in DOMAIN ai_cache : CacheExpire(k)

CacheSpec == Init /\ [][NextCache]_vars

(***************************************************************************)
(* Retention of the buckets: updateGeneralLedger gives every bucket it     *)
(* writes a time to live (ledger.js 143), and redis removes a key whose    *)
(* time to live has passed.  Time passes in years.                         *)
(***************************************************************************)
RetentionYears == 7

\* the instant at which a key given its TTL at the clock is removed
afterRetention(clock) == [clock EXCEPT !.year = @ + RetentionYears]

RECURSIVE expireAll(_, _, _)
\* redis EXPIRE key ttl, for the expire commands of a list
expireAll(E, cmds, clock) ==
    IF cmds = <<>> THEN E
    ELSE LET c == Head(cmds)
             set == IF c.op = "expire"
                    THEN [k \in DOMAIN E \cup {c.key} |->
                             IF k = c.key THEN afterRetention(clock) ELSE E[k]]
                    ELSE E
         IN expireAll(set, Tail(cmds), clock)

\* has the time to live of key k passed at the clock
expired(E, k, clock) == k \in DOMAIN E /\ ~monthLE(clock, E[k])

RetainEntries ==
    [description : {"d"}, date : {NoDate, FirstMonth},
     lines : {TwoLines(1100, MaxAmount, 4000, MaxAmount),
              TwoLines(5100, MaxAmount, 1100, MaxAmount)}]

\* LedgerService.createJournalEntry(userId, entryData)
RetainPost(entryData) ==
    /\ nextId < MaxJournals
    /\ LET r == createJournalEntry(Store, nextId + 1, StmtUser, entryData, now) IN
        /\ SetStore(r.store)
        /\ ret' = Answer("createJournalEntry", r.result, r.journalEntry, NoJournal)
        /\ expires' = IF r.result = "ok"
                      THEN expireAll(expires,
                                     createJournalEntryCmds(StmtUser, r.journalEntry), now)
                      ELSE expires
    /\ nextId' = nextId + 1
    /\ UNCHANGED <<liability, userLiabilities, userState, edits, steps, now, call, procs,
                   observed, report, transaction, userTransactions, metrics, ai_cache,
                   recurring, active_recurring, events, cache_hits, ai_context,
                   asset, userAssets>>

\* bot.js 1829-1834: a listed entry is reversed and deleted; the reversal
\* sets no time to live
RetainDelete(number) ==
    /\ number <= Len(validJournals(StmtUser))
    /\ LET journalToDelete == validJournals(StmtUser)[number] IN
        /\ SetStore(ExecAll(Store, deleteJournalCmds(StmtUser, journalToDelete)))
        /\ ret' = Answer("journal_delete", "deleted", NoJournal, journalToDelete)
    /\ UNCHANGED <<nextId, liability, userLiabilities, userState, edits, steps, now, call,
                   procs, observed, report, otherVars>>

\* a year passes: redis removes the keys whose time to live has passed
RetainYear ==
    /\ now.year < FirstMonth.year + RetentionYears + 2
    /\ now' = [now EXCEPT !.year = @ + 1]
    /\ ledger' = [k \in {x \in DOMAIN ledger : ~expired(expires, x, now')} |-> ledger[k]]
    /\ expires' = [k \in {x \in DOMAIN expires : ~expired(expires, x, now')} |-> expires[k]]
    /\ ret' = Answer("year", "ok", NoJournal, NoJournal)
    /\ UNCHANGED <<journal, userJournals, journal_entries, nextId, liability,
                   userLiabilities, userState, edits, steps, call, procs, observed, report,
                   transaction, userTransactions, metrics, ai_cache, recurring,
                   active_recurring, events, cache_hits, ai_context,
                   asset, userAssets>>

NextRetain ==
    \/ \E e \in RetainEntries : RetainPost(e)
    \/ \E n \in 1..MaxJournals : RetainDelete(n)
    \/ RetainYear

RetainSpec == Init /\ [][NextRetain]_vars

(***************************************************************************)
(* AssetService and its conversation (assets.js, bot.js)                   *)
(***************************************************************************)
\* assets.js 30-39 and 109-117
assetAccountCode(type) ==
    CASE type = "cash" -> 1000
      [] type = "bank_savings" -> 1100
      [] type \in {"crypto", "stocks"} -> 1800
      [] type = "property" -> 1700
      [] type = "equipment" -> 1500
      [] OTHER -> 1000

\* assets.js 41-58: the journal payload of a new asset
assetEntryData(assetData) ==
    [description |-> "asset",
     date |-> NoDate,
     lines |-> <<[account_code |-> assetAccountCode(assetData.type),
                  debit |-> assetData.value, credit |-> 0],
                 [account_code |-> 3000, debit |-> 0, credit |-> assetData.value]>>]

\* assets.js 119-136: the journal payload that takes an asset out of the books
assetRemovalData(doc) ==
    [description |-> "asset_removed",
     date |-> NoDate,
     lines |-> <<[account_code |-> 3000, debit |-> doc.current_value_myr, credit |-> 0],
                 [account_code |-> assetAccountCode(doc.type),
                  debit |-> 0, credit |-> doc.current_value_myr]>>]

RECURSIVE InsertByValue(_, _)
InsertByValue(sorted, a) ==
    IF sorted = <<>> THEN <<a>>
    ELSE IF Head(sorted).current_value_myr < a.current_value_myr
         THEN <<a>> \o sorted
         ELSE <<Head(sorted)>> \o InsertByValue(Tail(sorted), a)

RECURSIVE SortByValue(_)
\* Array.prototype.sort((a, b) => b.current_value_myr - a.current_value_myr)
SortByValue(seq) ==
    IF seq = <<>> THEN <<>>
    ELSE InsertByValue(SortByValue(SubSeq(seq, 1, Len(seq) - 1)), seq[Len(seq)])

\* assets.js 71-96
getUserAssets(userId) ==
    LET ids == SelectSeqBy(userAssets[userId],
                           {id \in DOMAIN asset : asset[id] # NoAsset /\ asset[id].is_active})
    IN SortByValue([i \in 1..Len(ids) |-> asset[ids[i]]])

NextAssetId == Cardinality({id \in DOMAIN asset : asset[id] # NoAsset}) + 1

\* everything but the store, the assets and the conversation
assetRest == <<liability, userLiabilities, edits, call, procs, observed, report,
               transaction, userTransactions, metrics, ai_cache, recurring,
               active_recurring, events, cache_hits, ai_context, expires>>

\* bot.js 1017-1034
MsgAssetsAdd(userId) ==
    /\ SetState(userId, [NoState EXCEPT !.state = "awaiting_asset_input"])
    /\ ret' = Answer("/assets_add", "prompt", NoJournal, NoJournal)
    /\ UNCHANGED <<storeVars, asset, userAssets, nextId, now, assetRest>>

\* bot.js 1036-1071
MsgAssetsDelete(userId) ==
    /\ IF getUserAssets(userId) = <<>>
       THEN /\ ret' = Answer("/assets_delete", "empty", NoJournal, NoJournal)
            /\ UNCHANGED userState
       ELSE /\ SetState(userId, [NoState EXCEPT !.state = "awaiting_asset_delete_number",
                                               !.assets = getUserAssets(userId)])
            /\ ret' = Answer("/assets_delete", "listed", NoJournal, NoJournal)
    /\ UNCHANGED <<storeVars, asset, userAssets, nextId, now, assetRest>>

\* bot.js 1673-1698 with assets.js 6-69: a text while awaiting_asset_input
TextAssetInput(userId, parsedAsset) ==
    /\ userState[userId].state = "awaiting_asset_input"
    /\ IF parsedAsset.value # 0
       THEN /\ nextId < MaxJournals
            /\ LET assetId == NextAssetId
                   r == createJournalEntry(Store, nextId + 1, userId,
                                           assetEntryData(parsedAsset), now)
               IN
               /\ SetStore(r.store)
               /\ asset' = [asset EXCEPT ![assetId] =
                                [id |-> assetId,
                                 user_id |-> userId,
                                 type |-> parsedAsset.type,
                                 current_value_myr |-> parsedAsset.value,
                                 is_active |-> TRUE]]
               /\ userAssets' = [userAssets EXCEPT ![userId] = <<assetId>> \o @]
               /\ ret' = Answer("asset_input", "added", r.journalEntry, NoJournal)
            /\ nextId' = nextId + 1
       ELSE /\ ret' = Answer("asset_input", "parse_error", NoJournal, NoJournal)
            /\ UNCHANGED <<storeVars, asset, userAssets, nextId>>
    /\ SetState(userId, NoState)
    /\ UNCHANGED <<now, assetRest>>

\* assets.js 98-151: the asset is looked up, a removing entry is posted and
\* the document is marked inactive; is_active is not looked at
deleteAsset(S, A, journalId, userId, assetId, clock) ==
    LET doc == A[assetId] IN
    IF doc = NoAsset \/ doc.user_id # userId
    THEN [store |-> S, asset |-> A, success |-> FALSE, posted |-> NoJournal]
    ELSE LET r == createJournalEntry(S, journalId, userId, assetRemovalData(doc), clock) IN
         [store |-> r.store,
          asset |-> [A EXCEPT ![assetId].is_active = FALSE],
          success |-> TRUE,
          posted |-> r.journalEntry]

\* bot.js 1623-1646: a text while awaiting_asset_delete_number
TextAssetDelete(userId, number) ==
    /\ userState[userId].state = "awaiting_asset_delete_number"
    /\ LET assets == userState[userId].assets IN
       IF number >= 1 /\ number <= Len(assets)
       THEN /\ nextId < MaxJournals
            /\ LET r == deleteAsset(Store, asset, nextId + 1, userId, assets[number].id, now) IN
                /\ SetStore(r.store)
                /\ asset' = r.asset
                /\ ret' = Answer("asset_delete",
                                 IF r.success THEN "asset_deleted" ELSE "failed",
                                 r.posted, NoJournal)
            /\ nextId' = nextId + 1
       ELSE /\ ret' = Answer("asset_delete", "invalid_number", NoJournal, NoJournal)
            /\ UNCHANGED <<storeVars, asset, nextId>>
    /\ SetState(userId, NoState)
    /\ UNCHANGED <<userAssets, now, assetRest>>

ParsedAssets == [type : {"cash", "crypto"}, value : 0..MaxAmount]
AssetUser == "u1"

\* the messages of one user about assets and about deleting journal entries
AssetHandle(u) ==
    \/ MsgAssetsAdd(u)
    \/ MsgAssetsDelete(u)
    \/ \E a \in ParsedAssets : TextAssetInput(u, a)
    \/ \E n \in Numbers : TextAssetDelete(u, n)
    \/ MsgJournalDelete(u) /\ UNCHANGED <<call, procs, observed, report, otherVars>>
    \/ \E n \in Numbers :
          TextJournalDelete(u, n) /\ UNCHANGED <<call, procs, observed, report, otherVars>>

NextAsset ==
    \/ steps < MaxSteps /\ steps' = steps + 1 /\ AssetHandle(AssetUser)
    \/ Tick /\ UNCHANGED <<call, procs, observed, report, otherVars>>

AssetSpec == Init /\ [][NextAsset]_vars

(***************************************************************************)
(* The recurring processor, one await at a time (recurring.js 128-210).    *)
(* setInterval (bot.js 2040-2051) starts a run every 60 seconds whether or *)
(* not the run before has returned, so the runs interleave at their awaits.*)
(***************************************************************************)
IdleRun == [status |-> "idle", ids |-> <<>>, clock |-> NoDate, item |-> NoRecurring,
            txn |-> 0, failures |-> 0]

RECURSIVE Ascending(_)
\* redis.sMembers, in ascending order
Ascending(ids) ==
    IF ids = {} THEN <<>>
    ELSE LET id == CHOOSE i \in ids : \A k \in ids : i <= k IN
         <<id>> \o Ascending(ids \ {id})

RECURSIVE FailuresOf(_)
FailuresOf(ps) ==
    IF ps = {} THEN 0
    ELSE LET p == CHOOSE q \in ps : TRUE IN procs[p].failures + FailuresOf(ps \ {p})

DueUser == "u1"
DueRest == <<storeVars, liability, userLiabilities, userState, edits, steps, call,
             observed, report, ai_cache, cache_hits, ai_context, expires, asset, userAssets>>

InitDue ==
    /\ InitStore
    /\ call = NoCall
    /\ procs = [p \in ProcIds |-> IdleRun]
    /\ observed = NoRead
    /\ report = NoReport
    /\ InitOther

\* an item that is due at once and never ends, and an item that is due next
\* month and ends this month
DueInputs == {r \in ParsedRecurring : (r.next_due = NoDate) = (r.end_date # NoDate)}

\* bot.js 1438-1462 with recurring.js 8-52
DueMessage(parsedRecurring) ==
    /\ nextId + 1 \in Uuids
    /\ SetOther(createRecurringTransaction(Other, nextId + 1, DueUser,
                                           parsedRecurring, now).store)
    /\ nextId' = nextId + 1
    /\ ret' = Answer("recurring", "ok", NoJournal, NoJournal)
    /\ UNCHANGED <<procs, now, DueRest>>

\* recurring.js 130-131: a run starts, takes the time and reads the set
DueStart(p) ==
    /\ procs[p].status = "idle"
    /\ procs' = [procs EXCEPT ![p] = [IdleRun EXCEPT !.status = "loop",
                                                     !.ids = Ascending(active_recurring),
                                                     !.clock = now,
                                                     !.failures = procs[p].failures]]
    /\ ret' = Answer("processDueRecurring", "started", NoJournal, NoJournal)
    /\ UNCHANGED <<transaction, userTransactions, metrics, recurring, active_recurring,
                   events, nextId, now, DueRest>>

\* recurring.js 137-149: the item is read; an inactive one leaves the set, a
\* due one is handed to executeRecurring
DueRead(p) ==
    /\ procs[p].status = "loop"
    /\ procs[p].ids # <<>>
    /\ LET id == Head(procs[p].ids)
           item == recurring[id]
       IN IF item = NoRecurring \/ ~item.is_active
          THEN /\ active_recurring' = active_recurring \ {id}
               /\ procs' = [procs EXCEPT ![p].ids = Tail(@)]
          ELSE /\ UNCHANGED active_recurring
               /\ procs' = IF monthLE(item.next_due, procs[p].clock)
                           THEN [procs EXCEPT ![p].status = "execute", ![p].item = item]
                           ELSE [procs EXCEPT ![p].ids = Tail(@)]
    /\ ret' = Answer("processDueRecurring", "read", NoJournal, NoJournal)
    /\ UNCHANGED <<transaction, userTransactions, metrics, recurring, events, nextId, now,
                   DueRest>>

\* recurring.js 172-177: the transaction of the occurrence is created
DueExecute(p) ==
    /\ procs[p].status = "execute"
    /\ nextId + 1 \in Uuids
    /\ LET item == procs[p].item
           created == createTransaction(Other, nextId + 1, item.user_id,
                                        [amount |-> item.amount_myr, type |-> item.type,
                                         category |-> item.category,
                                         description |-> item.description,
                                         date |-> NoDate, is_future |-> FALSE],
                                        now)
       IN /\ SetOther(created.store)
          /\ procs' = [procs EXCEPT ![p].status = "update", ![p].txn = nextId + 1]
    /\ nextId' = nextId + 1
    /\ ret' = Answer("executeRecurring", "created", NoJournal, NoJournal)
    /\ UNCHANGED <<now, DueRest>>

\* recurring.js 179-203: next_due, last_executed and execution_count are
\* written from the item as it was read, the item ends after its end date,
\* and the execution is logged
DueUpdate(p) ==
    /\ procs[p].status = "update"
    /\ LET item == procs[p].item
           nextDue == calculateNextDue(item.next_due, item.frequency)
           ended == item.end_date # NoDate /\ ~monthLE(nextDue, item.end_date)
       IN /\ recurring' = [recurring EXCEPT
                              ![item.id].next_due = nextDue,
                              ![item.id].last_executed = now,
                              ![item.id].execution_count = item.execution_count + 1,
                              ![item.id].is_active = IF ended THEN FALSE ELSE @]
          /\ active_recurring' = IF ended THEN active_recurring \ {item.id}
                                 ELSE active_recurring
          /\ events' = Append(events, [stream |-> "recurring_executed",
                                       user_id |-> item.user_id, id |-> item.id,
                                       transaction_id |-> procs[p].txn,
                                       next_due |-> nextDue])
    /\ procs' = [procs EXCEPT ![p].status = "loop", ![p].ids = Tail(@),
                              ![p].item = NoRecurring, ![p].txn = 0]
    /\ ret' = Answer("executeRecurring", "ok", NoJournal, NoJournal)
    /\ UNCHANGED <<transaction, userTransactions, metrics, nextId, now, DueRest>>

\* recurring.js 205-208, 151-155: the store refuses the transaction,
\* executeRecurring throws and the run takes the item out of the set
DueFail(p) ==
    /\ procs[p].status = "execute"
    /\ FailuresOf(ProcIds) < MaxFailures
    /\ active_recurring' = active_recurring \ {procs[p].item.id}
    /\ procs' = [procs EXCEPT ![p].status = "loop", ![p].ids = Tail(@),
                              ![p].item = NoRecurring, ![p].failures = @ + 1]
    /\ ret' = Answer("executeRecurring", "error", NoJournal, NoJournal)
    /\ UNCHANGED <<transaction, userTransactions, metrics, recurring, events, nextId, now,
                   DueRest>>

\* recurring.js 157-161: the run returns
DueReturn(p) ==
    /\ procs[p].status = "loop"
    /\ procs[p].ids = <<>>
    /\ procs' = [procs EXCEPT ![p].status = "idle"]
    /\ ret' = Answer("processDueRecurring", "ok", NoJournal, NoJournal)
    /\ UNCHANGED <<transaction, userTransactions, metrics, recurring, active_recurring,
                   events, nextId, now, DueRest>>

DueTick ==
    /\ Tick
    /\ UNCHANGED <<call, procs, observed, report, otherVars>>

NextDue ==
    \/ \E r \in DueInputs : DueMessage(r)
    \/ \E p \in ProcIds : DueStart(p)
    \/ \E p \in ProcIds : DueRead(p)
    \/ \E p \in ProcIds : DueExecute(p)
    \/ \E p \in ProcIds : DueUpdate(p)
    \/ \E p \in ProcIds : DueFail(p)
    \/ \E p \in ProcIds : DueReturn(p)
    \/ DueTick

DueSpec == InitDue /\ [][NextDue]_vars

\* the processor with one recurring item while every store operation
\* succeeds: the timer keeps starting runs (bot.js 2041-2047) and every await
\* of a run returns
NextLive ==
    \/ \E r \in DueInputs : nextId = 0 /\ DueMessage(r)
    \/ \E p \in ProcIds : DueStart(p)
    \/ \E p \in ProcIds : DueRead(p)
    \/ \E p \in ProcIds : DueExecute(p)
    \/ \E p \in ProcIds : DueUpdate(p)
    \/ \E p \in ProcIds : DueReturn(p)
    \/ DueTick

LiveSpec ==
    /\ InitDue
    /\ [][NextLive]_vars
    /\ \A p \in ProcIds :
          /\ WF_vars(DueStart(p))
          /\ WF_vars(DueRead(p))
          /\ WF_vars(DueExecute(p))
          /\ WF_vars(DueUpdate(p))
          /\ WF_vars(DueReturn(p))

(***************************************************************************)
(* Properties                                                              *)
(***************************************************************************)
Numbers3(bucket) == <<bucket.total_debits, bucket.total_credits, bucket.balance>>
Add3(x, y) == <<x[1] + y[1], x[2] + y[2], x[3] + y[3]>>

RECURSIVE SumFn(_, _)
\* F[1] + ... + F[n]
SumFn(F, n) == IF n = 0 THEN 0 ELSE F[n] + SumFn(F, n - 1)

\* the normal-balance sign of the chart: debit-normal for asset and expense
\* accounts, credit-normal for liability, equity and revenue accounts
DebitNormal(a) == a \in AssetCodes \cup ExpenseCodes
NormalSigned(a, d, c) == IF DebitNormal(a) THEN d - c ELSE c - d

\* the bucket of account a in the month of the direct call
CallKey(a) == <<call.userId, a, now.year, now.month>>
CallLines == call.entryData.lines
CallDebits == SumFn([i \in 1..Len(CallLines) |-> CallLines[i].debit], Len(CallLines))
CallCredits == SumFn([i \in 1..Len(CallLines) |-> CallLines[i].credit], Len(CallLines))
BalanceGain(a) ==
    hGetAll(ledger, CallKey(a)).balance - hGetAll(call.before.ledger, CallKey(a)).balance
\* what the lines of the call on account a are worth, by a sign rule
CallNet(a, Signed(_, _, _)) ==
    SumFn([i \in 1..Len(CallLines) |->
              IF CallLines[i].account_code = a
              THEN Signed(a, CallLines[i].debit, CallLines[i].credit) ELSE 0],
          Len(CallLines))
CallReturned == call.phase \in {"created", "rejected"}

\* C1: createJournalEntry rejects every entry whose total debits and total
\* credits differ by more than 0.01, and the rejected call leaves the GL
\* buckets, the journal store, the journal lists and the stream as they were.
C1_UnbalancedRejected ==
    (CallReturned /\ Abs(CallDebits - CallCredits) > 1)
        => /\ call.phase = "rejected"
           /\ ret.result = "BalanceError"
           /\ Store = call.before

\* an unbalanced entry was rejected on top of a ledger that holds buckets
C1_Witness ==
    /\ call.phase = "rejected"
    /\ Abs(CallDebits - CallCredits) > 1
    /\ ledger # <<>>
    /\ journal[SeedId] # NoJournal

\* C2: an entry with a line whose account code is not in the chart of
\* accounts is rejected before any mutation: no bucket changes and no journal
\* record is stored.
C2_UnknownAccountRejected ==
    (CallReturned /\ \E i \in 1..Len(CallLines) : CallLines[i].account_code \notin ChartCodes)
        => /\ call.phase = "rejected"
           /\ Store = call.before

\* C4: reversing an accepted entry and posting it again leaves total_debits,
\* total_credits and balance of every bucket as they were before the reversal.
C4_ReverseThenPost ==
    call.phase = "reposted"
        => \A k \in DOMAIN ledger \cup DOMAIN call.posted.ledger :
              Numbers3(hGetAll(ledger, k)) = Numbers3(hGetAll(call.posted.ledger, k))

\* C5: for every non-contra account of the chart, posting lines with debit d
\* and credit c changes the bucket balance by d - c when the account is an
\* asset or an expense and by c - d when it is a liability, equity or revenue.
C5_NormalBalance ==
    call.phase = "created"
        => \A a \in ChartCodes :
              ~chartOfAccounts[a].isContra => BalanceGain(a) = CallNet(a, NormalSigned)

\* a debit to an asset account raised its balance and a credit to a liability
\* account raised that one's
C5_Witness ==
    /\ call.phase = "created"
    /\ \E i, j \in 1..Len(CallLines) :
          /\ CallLines[i].account_code = 1100 /\ CallLines[i].debit > CallLines[i].credit
          /\ CallLines[j].account_code = 2200 /\ CallLines[j].credit > CallLines[j].debit
    /\ BalanceGain(1100) > 0
    /\ BalanceGain(2200) > 0

ContraSigned(a, d, c) == -NormalSigned(a, d, c)

\* C6: the contra asset account 1600 carries the opposite sign of its type:
\* posting a debit to it decreases its balance, posting a credit increases it.
C6_ContraInverts ==
    call.phase = "created" => BalanceGain(1600) = CallNet(1600, ContraSigned)

\* what the lines of one stored journal are worth in bucket k
NetOfJournal(je, k) ==
    IF je = NoJournal \/ <<je.user_id, je.date.year, je.date.month>> # <<k[1], k[3], k[4]>>
    THEN 0
    ELSE SumFn([i \in 1..Len(je.entries) |->
                   IF je.entries[i].account_code = k[2]
                   THEN NormalSigned(k[2], je.entries[i].debit_amount, je.entries[i].credit_amount)
                   ELSE 0],
               Len(je.entries))

NetOfStore(k) == SumFn([id \in DOMAIN journal |-> NetOfJournal(journal[id], k)],
                       Cardinality(DOMAIN journal))

BucketsOf(je) ==
    IF je = NoJournal THEN {}
    ELSE {<<je.user_id, je.entries[i].account_code, je.date.year, je.date.month>> :
             i \in 1..Len(je.entries)}

\* bucket k is not what it was before the last call: written, or created
Changed(k) ==
    \/ hGetAll(ledger, k) # hGetAll(call.before.ledger, k)
    \/ (k \in DOMAIN ledger) # (k \in DOMAIN call.before.ledger)

C7_Frame ==
    call.phase \in {"created", "reversed", "reposted"}
        => \A k \in DOMAIN ledger \cup DOMAIN call.before.ledger :
              Changed(k) => k \in BucketsOf(ret.posted) \cup BucketsOf(ret.reversed)

\* an entry dated in a later month than the clock's was reversed for one
\* user while the ledger held buckets of the other user and of another month
C7_Witness ==
    /\ call.phase = "reversed"
    /\ ret.reversed.date # now
    /\ \E k \in DOMAIN ledger : Changed(k)
    /\ \E k \in DOMAIN ledger : k[4] # ret.reversed.date.month /\ ledger[k].balance # 0
    /\ \E k \in DOMAIN ledger : k[1] # ret.reversed.user_id /\ ledger[k].balance # 0

\* the deltas of line i of request p: a creation posts it, a deletion
\* reverses it
LineDelta(x) ==
    LET q == procs[x[1]]
        line == q.entryData.lines[x[2]]
        s == IF q.kind = "create" THEN 1 ELSE -1
    IN <<s * line.debit, s * line.credit,
         s * NormalSigned(line.account_code, line.debit, line.credit)>>

LinesOn(k) ==
    {x \in ProcIds \X (1..MaxLines) :
        /\ x[2] <= Len(procs[x[1]].entryData.lines)
        /\ k = <<ConcUser, procs[x[1]].entryData.lines[x[2]].account_code,
                 FirstMonth.year, FirstMonth.month>>}

RECURSIVE SumDeltas(_)
SumDeltas(X) ==
    IF X = {} THEN <<0, 0, 0>>
    ELSE LET x == CHOOSE y \in X : TRUE IN Add3(LineDelta(x), SumDeltas(X \ {x}))

BaseNumbers(k) == Numbers3(hGetAll(ConcBase.ledger, k))
AllDone == \A p \in ProcIds : procs[p].status = "done"

\* C8: once concurrent posts and reversals on the same bucket have all
\* completed, its total_debits, total_credits and balance are the initial
\* values plus the sum of all their deltas, whatever the interleaving.
C8_NoLostUpdate ==
    AllDone
        => \A k \in ConcKeys :
              Numbers3(hGetAll(ledger, k)) = Add3(BaseNumbers(k), SumDeltas(LinesOn(k)))

\* a creation and a deletion that touch bucket 1100 have both completed
C8_Witness ==
    /\ AllDone
    /\ \E p, q \in ProcIds : procs[p].kind = "create" /\ procs[q].kind = "delete"
    /\ Cardinality(LinesOn(<<ConcUser, 1100, FirstMonth.year, FirstMonth.month>>)) >= 2

\* C9: what a statement generator reads of a bucket reflects, for each line
\* applied to it, either all of the line's deltas or none of them.
C9_NoTornRead ==
    observed.key # NoKey
        => \E X \in SUBSET LinesOn(observed.key) :
              Numbers3(observed.bucket) = Add3(BaseNumbers(observed.key), SumDeltas(X))

\* C10: when a request has returned an error while deltas of its entry were
\* already applied (nothing was rolled back), submitting it again until it
\* completes applies each delta exactly once.
C10_AllOrNothing ==
    (AllDone /\ \E p \in ProcIds : procs[p].applied > 0)
        => \A k \in ConcKeys :
              Numbers3(hGetAll(ledger, k)) = Add3(BaseNumbers(k), SumDeltas(LinesOn(k)))

(***************************************************************************)
(* Properties of the statements                                            *)
(***************************************************************************)
StoredJournals == {journal[id] : id \in {i \in JournalIds : journal[i] # NoJournal}}

\* every stored entry has equal debit and credit totals
JournalsBalanced == \A j \in StoredJournals : j.total_debit = j.total_credit

\* C12: after any sequence of balanced postings to chart accounts the balance
\* sheet has assets.total equal to liabilities.total + equity.total within
\* 0.01 and reports is_balanced = true.
C12_BalanceSheetBalances ==
    (report.kind = "balance_sheet" /\ JournalsBalanced)
        => /\ report.result.is_balanced
           /\ Abs(report.result.assets_total
                  - (report.result.liabilities_total + report.result.equity_total)) <= Tolerance

\* the bucket balance of an account in the period of a trial balance
PeriodBalance(code, period) == hGetAll(ledger, ledgerKey(report.userId, code, period)).balance

\* C13: after balanced postings dated in one period the trial balance of that
\* period has equal debit and credit totals and is_balanced = true, and an
\* account whose balance lies opposite to its normal side is shown in the
\* opposite column with its magnitude.
C13_TrialBalanceBalances ==
    (/\ report.kind = "trial_balance"
     /\ JournalsBalanced
     /\ \A j \in StoredJournals : /\ j.date.year = report.result.period.year
                                  /\ j.date.month = report.result.period.month)
        => /\ report.result.total_debits = report.result.total_credits
           /\ report.result.is_balanced
           /\ \A code \in ChartCodes :
                 LET b == PeriodBalance(code, report.result.period) IN
                 b < 0 =>
                    /\ code \in report.result.accounts
                    /\ IF DebitNormal(code)
                       THEN report.result.credit_balance[code] = -b
                       ELSE report.result.debit_balance[code] = -b

\* the months of the ledger up to and including the month of a date
ThroughMonth(key, date) ==
    \/ key[3] < date.year
    \/ key[3] = date.year /\ key[4] <= date.month

\* the balance of an account summed over every posted month through a date
BalanceThrough(L, userId, code, date) ==
    LET keys == {k \in DOMAIN L : k[1] = userId /\ k[2] = code /\ ThroughMonth(k, date)}
    IN SumCodes(keys, [k \in keys |-> L[k].balance])

\* C14: the balance sheet sums each asset, liability and equity account over
\* every month from the first posting through the month of asOfDate, postings
\* of earlier years included.
C14_CumulativeAcrossYears ==
    report.kind = "balance_sheet"
        => \A code \in SheetCodes :
              report.result.balance[code]
                 = sheetItem(BalanceThrough(ledger, report.userId, code, report.result.date))

\* the credit the last posting made to an account that it did not debit
CreditPosted(code) ==
    LET lines == call.entryData.lines
        on == {i \in 1..Len(lines) : lines[i].account_code = code}
    IN IF \E i \in on : lines[i].debit > 0 THEN 0
       ELSE SumCodes(on, [i \in on |-> lines[i].credit])

\* the sheet the same call returns on the ledger before the last posting
SheetBefore ==
    generateBalanceSheet(call.before.ledger, report.userId, report.asOfDate, now)

\* C15: a credit of X posted to asset account 1100 lowers the amount the
\* balance sheet reports for 1100, and assets.total, by X relative to the
\* sheet before the posting, whatever the value before.
C15_SignedSheetBalance ==
    (/\ report.kind = "balance_sheet"
     /\ call.phase = "posted"
     /\ ret.result = "ok"
     /\ CreditPosted(1100) > 0
     /\ call.entryData.date.year = report.result.date.year
     /\ call.entryData.date.month <= report.result.date.month)
        => /\ report.result.balance[1100] = SheetBefore.balance[1100] - CreditPosted(1100)
           /\ report.result.assets_total = SheetBefore.assets_total - CreditPosted(1100)

\* net_income of the income statement from 1 January of the as-of year
\* through the as-of date
YearToDateIncome ==
    generateIncomeStatement(ledger, report.userId,
                            Day(report.result.date.year, 1, 1), report.result.date).net_income

\* C16: the Current Year Earnings added to equity.total is the signed
\* net_income of the income statement from 1 January of the as-of year through
\* asOfDate (nothing is added for an amount within 0.01 of zero).
C16_SignedEarnings ==
    report.kind = "balance_sheet"
        => report.result.equity_total - report.result.equity_accounts
              = IF Abs(YearToDateIncome) > Tolerance THEN YearToDateIncome ELSE 0

\* C17: the trial balance reports is_balanced = true exactly when the summed
\* debit balances and the summed credit balances differ by at most 0.01.
C17_BalancedWithinTolerance ==
    report.kind = "trial_balance"
        => (report.result.is_balanced
              <=> Abs(report.result.total_debits - report.result.total_credits) <= Tolerance)

\* C18: no call of a statement generator changes a bucket, a journal record,
\* a journal list or the stream (a step that leaves a statement in report is
\* a call of a generator).
C18_GeneratorsNeverWrite ==
    [][report'.kind # "none"
          => (ledger' = ledger /\ journal' = journal /\ userJournals' = userJournals
              /\ journal_entries' = journal_entries)]_vars

\* a trial balance that reports is_balanced = false has been returned
C18_Witness ==
    /\ report.kind = "trial_balance"
    /\ ~report.result.is_balanced
    /\ DOMAIN ledger # {}

RECURSIVE CalendarMonths(_, _)
\* the calendar months from the month of one date through the month of another
CalendarMonths(from, to) ==
    IF from.year > to.year \/ (from.year = to.year /\ from.month > to.month) THEN <<>>
    ELSE <<[year |-> from.year, month |-> from.month]>> \o CalendarMonths(NextMonth(from), to)

\* C19: the income statement covers each calendar month that intersects
\* [start, end] exactly once, whatever the days of the month of start and end.
C19_EveryMonthOnce ==
    (report.kind = "income_statement" /\ dateLE(report.start, report.end))
        => LET expected == incomeStatementOver(ledger, report.userId,
                                               CalendarMonths(report.start, report.end))
           IN /\ report.result.revenue = expected.revenue
              /\ report.result.cogs = expected.cogs
              /\ report.result.operating_expenses = expected.operating_expenses
              /\ report.result.other_income = expected.other_income
              /\ report.result.other_expenses = expected.other_expenses
              /\ report.result.net_income = expected.net_income

\* the sum of the bucket balances of a set of accounts over months
SignedTotal(codes, months) ==
    SumInts([i \in 1..Len(months) |->
                SumCodes(codes, [code \in codes |->
                                    balanceOf(ledger, report.userId, code, months[i])])])

\* C20: net_income is the sum of the balances of the revenue accounts minus
\* the sum of the balances of the expense accounts over the months of the
\* statement.
C20_SignedIncomeTotals ==
    report.kind = "income_statement"
        => report.result.net_income
              = SignedTotal(RevenueCodes, report.result.months)
                - SignedTotal(ExpenseCodes, report.result.months)

\* the user of the report has no bucket in the month of a date
NoPostingsIn(date) ==
    \A k \in DOMAIN ledger :
        ~(k[1] = report.userId /\ k[3] = date.year /\ k[4] = date.month)

DatedWithin(date, start, end) == dateLE(start, date) /\ dateLE(date, end)

\* debits minus credits the stored entries dated in the range of the report
\* have posted to an account
DebitsWithin(code) ==
    LET js == {j \in StoredJournals : DatedWithin(j.date, report.start, report.end)}
        net(j) == SumInts([i \in 1..Len(j.entries) |->
                              IF j.entries[i].account_code = code
                              THEN j.entries[i].debit_amount - j.entries[i].credit_amount
                              ELSE 0])
    IN SumCodes(js, [j \in js |-> net(j)])

\* the item the statement owes for a change (none within 0.01 of zero)
ItemFor(change) == IF Abs(change) > Tolerance THEN change ELSE 0

\* C22: the cash-flow statement reports, for each working-capital account, the
\* change that the postings dated within [startDate, endDate] made to it: -X
\* for a rise of X of an asset account in {1200, 1300, 1400}, +X for a rise of
\* X of a liability account in {2000, 2100}.
C22_WorkingCapitalChange ==
    (report.kind = "cashflow" /\ dateLE(report.start, report.end))
        => /\ \A code \in {1200, 1300, 1400} :
                 report.result.working_capital[code] = ItemFor(-DebitsWithin(code))
           /\ \A code \in {2000, 2100} :
                 report.result.working_capital[code] = ItemFor(-DebitsWithin(code))

\* the statement the same call returns on the ledger before the last posting
CashflowBefore ==
    generateCashflowStatement(call.before.ledger, report.userId, report.start, report.end)

\* debits minus credits of the last posting on the cash accounts 1000 and 1100
CashPosted ==
    LET lines == call.entryData.lines IN
    SumInts([i \in 1..Len(lines) |->
                IF lines[i].account_code \in {1000, 1100}
                THEN lines[i].debit - lines[i].credit ELSE 0])

\* C23: beginning_cash is the balance of 1000 and 1100 as it stood at
\* startDate: a posting dated after startDate inside the period leaves
\* beginning_cash as it was and enters ending_cash once.
C23_BeginningCashAtStart ==
    (/\ report.kind = "cashflow"
     /\ call.phase = "posted"
     /\ ret.result = "ok"
     /\ call.entryData.date # report.start
     /\ DatedWithin(call.entryData.date, report.start, report.end))
        => /\ report.result.beginning_cash = CashflowBefore.beginning_cash
           /\ report.result.ending_cash = CashflowBefore.ending_cash + CashPosted

EntriesOf(J, txn) ==
    {id \in DOMAIN J : J[id] # NoJournal /\ J[id].reference = txn.id}

\* the balance of bucket k without the entries of txn
BalanceWithout(J, L, txn, k) ==
    hGetAll(L, k).balance
      - SumFn([id \in DOMAIN J |->
                  IF id \in EntriesOf(J, txn) THEN NetOfJournal(J[id], k) ELSE 0],
              Cardinality(DOMAIN J))

\* C25: when deleteTransaction has succeeded for a transaction that has an
\* auto-generated journal entry, every bucket the entry touched holds the
\* balance it would have without the entry.
C25_DeleteReversesEntry ==
    call.phase = "deleted" =>
        \A id \in EntriesOf(call.before.journal, call.transaction) :
            \A k \in BucketsOf(call.before.journal[id]) :
                hGetAll(ledger, k).balance
                    = BalanceWithout(call.before.journal, call.before.ledger,
                                     call.transaction, k)

\* the stored entry is balanced and its lines are in the buckets of the ledger
PostedFor(txn) ==
    \E id \in EntriesOf(journal, txn) :
        /\ journal[id].user_id = txn.user_id
        /\ journal[id].total_debit = journal[id].total_credit
        /\ \A k \in BucketsOf(journal[id]) : k \in DOMAIN ledger

\* C26: every transaction record created, by the message handler or by the
\* execution of a recurring item, has a balanced journal entry stored and
\* posted to the general ledger for it.
C26_EveryTransactionHasEntry ==
    \A id \in DOMAIN transaction :
        transaction[id] # NoTransaction => PostedFor(transaction[id])

\* no handler of a delete confirmation is between two of its awaits
Quiet == \A p \in ProcIds : procs[p].status \in {"idle", "done"}

\* C27: the effect of a stored entry is reversed at most once: when the
\* delete confirmation of one listed entry is handled twice, the later
\* handler reports not-found and changes no bucket, so that at rest every
\* bucket holds the net effect of the entries still stored.
C27_ReversedAtMostOnce ==
    Quiet =>
        /\ \A p, q \in ProcIds :
              (p # q /\ procs[p].result = "deleted" /\ procs[q].result = "deleted")
                  => procs[p].journalToDelete.id # procs[q].journalToDelete.id
        /\ \A k \in DOMAIN ledger : ledger[k].balance = NetOfStore(k)

(***************************************************************************)
(* Properties of the two users                                             *)
(***************************************************************************)

\* the user the last operation was performed for
Actor == IF report.kind # "none" THEN report.userId ELSE call.userId

\* the buckets of one user
OwnLedger(L, userId) == [k \in {x \in DOMAIN L : x[1] = userId} |-> L[k]]

\* C28: ledger data is isolated per user: an operation performed for one
\* user leaves every bucket of the other user as it was, and a statement
\* generated for a user is the statement of that user's buckets alone, so
\* two runs that differ in the operations of user A agree on the buckets
\* and the statements of user B.
C28_UserIsolation ==
    [][/\ \A k \in DOMAIN ledger \cup DOMAIN ledger' :
            k[1] # Actor' => /\ k \in DOMAIN ledger /\ k \in DOMAIN ledger'
                             /\ ledger'[k] = ledger[k]
       /\ report'.kind # "none" =>
            report'.result = statementOn(OwnLedger(ledger', report'.userId),
                                         report'.kind, report'.userId, now')]_vars

\* a trial balance that holds debits was generated for one user while the
\* other user, who posted or deleted last, has buckets that are not zero
C28_Witness ==
    /\ report.kind = "trial_balance"
    /\ report.result.total_debits # 0
    /\ call.phase \in {"posted", "deleted"}
    /\ call.userId # report.userId
    /\ \E k \in DOMAIN ledger : k[1] # report.userId /\ ledger[k].balance # 0

(***************************************************************************)
(* Properties of the AI cache                                              *)
(***************************************************************************)

\* C29: the response that getCachedAIResponse(query, userId) returns is one
\* that was generated and cached for that same userId and that same query:
\* the cached answer of one user is never served to another user.
C29_CacheSeparatesUsers ==
    call.phase = "cached" =>
        /\ call.response.userId = call.userId
        /\ call.response.message = call.message

(***************************************************************************)
(* Properties of the buckets                                               *)
(***************************************************************************)

\* C30: between two calls, after any posts and reversals of entries with
\* non-negative amounts, each bucket of a chart account holds
\* balance = total_debits - total_credits when the account type is asset or
\* expense and balance = total_credits - total_debits otherwise.
C30_BalanceIsSignedTotals ==
    \A k \in DOMAIN ledger :
        k[2] \in ChartCodes
            => ledger[k].balance
                 = NormalSigned(k[2], ledger[k].total_debits, ledger[k].total_credits)

\* an entry with a credit on the loan account was reversed while the bucket
\* of the revenue account holds the posting of another entry
C30_Witness ==
    /\ call.phase = "reversed"
    /\ \E i \in 1..Len(ret.reversed.entries) :
          /\ ret.reversed.entries[i].account_code = 2200
          /\ ret.reversed.entries[i].credit_amount > 0
    /\ \E k \in DOMAIN ledger : k[2] = 4000 /\ ledger[k].balance # 0

\* C31: total_debits and total_credits of a bucket only accumulate: no
\* post, reversal, edit or deletion lowers either field.
C31_TotalsNeverDecrease ==
    [][\A k \in DOMAIN ledger :
          /\ hGetAll(ledger', k).total_debits >= ledger[k].total_debits
          /\ hGetAll(ledger', k).total_credits >= ledger[k].total_credits]_vars

\* C32: a bucket, once created by the first posting to its period, is never
\* deleted: whatever is posted or reversed and however much time passes,
\* the bucket is still there to be read.
C32_BucketNeverDeleted ==
    [][\A k \in DOMAIN ledger : k \in DOMAIN ledger']_vars

(***************************************************************************)
(* Properties of the assets                                                *)
(***************************************************************************)
RECURSIVE NetOver(_, _)
\* debits less credits over a set of buckets
NetOver(L, keys) ==
    IF keys = {} THEN 0
    ELSE LET k == CHOOSE x \in keys : TRUE IN
         L[k].total_debits - L[k].total_credits + NetOver(L, keys \ {k})

\* what the ledger holds for a user on an account, over all periods
NetOf(L, userId, code) ==
    NetOver(L, {k \in DOMAIN L : k[1] = userId /\ k[2] = code})

\* C33: once deleteAsset has succeeded and the user has no active asset left,
\* the ledger holds nothing for the user on the asset accounts and on 3000,
\* whatever happened between createAsset and deleteAsset
C33_DeletedAssetLeavesNothing ==
    (/\ ret.result = "asset_deleted"
     /\ \A id \in DOMAIN asset :
           asset[id] # NoAsset /\ asset[id].user_id = AssetUser => ~asset[id].is_active)
    => \A code \in {1000, 1800, 3000} : NetOf(ledger, AssetUser, code) = 0

(***************************************************************************)
(* Properties of the recurring processor                                   *)
(***************************************************************************)
Executions == {i \in DOMAIN events : events[i].stream = "recurring_executed"}

\* C34: for every recurring item and every value of its next_due at most one
\* transaction is created, also when two runs of the processor overlap
C34_OccurrenceExecutedOnce ==
    \A i, j \in Executions :
        events[i].id = events[j].id /\ events[i].next_due = events[j].next_due => i = j

\* C35: when no run is in progress, every recurring item with is_active =
\* true is a member of active_recurring, also after a run in which its
\* execution raised an error
C35_ActiveItemsAreIndexed ==
    Quiet => \A id \in DOMAIN recurring :
                recurring[id] # NoRecurring /\ recurring[id].is_active
                    => id \in active_recurring

\* C36: no transaction is created for an occurrence whose due date is later
\* than the end date of its item
C36_NothingAfterEndDate ==
    \A p \in ProcIds :
        procs[p].status = "update"
            => \/ procs[p].item.end_date = NoDate
               \/ monthLE(procs[p].item.next_due, procs[p].item.end_date)

\* the item is active, indexed and due at time t, which is now
DueAt(id, t) ==
    /\ now = t
    /\ recurring[id] # NoRecurring
    /\ recurring[id].is_active
    /\ id \in active_recurring
    /\ monthLE(recurring[id].next_due, t)

\* the item has ended or its next_due lies after t
PastDue(id, t) ==
    recurring[id] # NoRecurring
        /\ (recurring[id].is_active => ~monthLE(recurring[id].next_due, t))

\* the bounded run has no uuid left for another transaction
UuidsUsedUp == nextId + 1 \notin Uuids

\* the step logs an execution of the item
Executes(id) ==
    /\ Len(events') = Len(events) + 1
    /\ events'[Len(events')].stream = "recurring_executed"
    /\ events'[Len(events')].id = id

\* C37: while the store works and the timer keeps firing, an item that is due
\* is executed until its next_due lies after the time at which it was due,
\* and every execution moves next_due exactly one period forward
C37_DueItemsCatchUp ==
    /\ \A id \in Uuids, t \in Dates : DueAt(id, t) ~> (PastDue(id, t) \/ UuidsUsedUp)
    /\ [][\A id \in Uuids :
             Executes(id) =>
                 /\ recurring'[id].next_due =
                        calculateNextDue(recurring[id].next_due, recurring[id].frequency)
                 /\ ~monthLE(recurring'[id].next_due, recurring[id].next_due)]_vars

(***************************************************************************)
(* Properties of the commands                                              *)
(***************************************************************************)
\* C38: a listing command (/journal_list, /journal_edit, /journal_delete)
\* leaves the user in the state the command sets or in the state the user
\* had, never in awaiting_journal_entry set by the handler of /journal
C38_ListingCommandKeepsItsState ==
    [][\A u \in Users :
          ret'.result \in {"empty", "listed"}
              => \/ userState'[u] = userState[u]
                 \/ userState'[u].state # "awaiting_journal_entry"]_vars
====
